---- MODULE Spec2Model ----
(***************************************************************************)
(* The Mermaid syntax normalizer of src/src/components/Mermaid.tsx.        *)
(*                                                                         *)
(* The file holds two revisions of the converter:                          *)
(*   - lines 314-677: the depth-scanning MermaidConverter with the         *)
(*     validating preprocessChart (definitions suffixed V1 here);          *)
(*   - lines 1174-1665: the dispatching MermaidConverter (flow and         *)
(*     sequence dialects) with regex-only shape matching (unsuffixed).     *)
(*                                                                         *)
(* A JavaScript string is modelled as the sequence of its characters, a    *)
(* character being a one-character TLA+ string; positions are 1-based.     *)
(* Every regular expression of the source is modelled by a matcher that    *)
(* returns what the backtracking engine returns (leftmost match, greedy    *)
(* and lazy quantifiers), not by an abstraction of it.                     *)
(***************************************************************************)
EXTENDS Integers, Sequences, FiniteSets, TLC

\* ------------------------------------------------------------------------
\* JavaScript strings
\* ------------------------------------------------------------------------

Chars(s) == [i \in 1..Len(s) |-> SubSeq(s, i, i)]

Lowers == Chars("abcdefghijklmnopqrstuvwxyz")
Uppers == Chars("ABCDEFGHIJKLMNOPQRSTUVWXYZ")
Digits == Chars("0123456789")

\* \w of a regular expression without the u flag
WordChars ==
  {"a", "b", "c", "d", "e", "f", "g", "h", "i", "j", "k", "l", "m",
   "n", "o", "p", "q", "r", "s", "t", "u", "v", "w", "x", "y", "z",
   "A", "B", "C", "D", "E", "F", "G", "H", "I", "J", "K", "L", "M",
   "N", "O", "P", "Q", "R", "S", "T", "U", "V", "W", "X", "Y", "Z",
   "0", "1", "2", "3", "4", "5", "6", "7", "8", "9", "_"}
IsWord(c) == c \in WordChars

\* \s, and the characters String.prototype.trim removes
SpaceChars == {" ", "\t", "\n"}
IsSpace(c) == c \in SpaceChars

MinOf(S) == CHOOSE x \in S : \A y \in S : x <= y

\* the first position in lo..hi holding a character of chars, 0 when there
\* is none (positions count from 1)
firstIn(s, chars, lo, hi) ==
  IF \E k \in lo..hi : s[k] \in chars
  THEN CHOOSE k \in lo..hi : s[k] \in chars /\ \A j \in lo..(k - 1) : s[j] \notin chars
  ELSE 0

\* the first and the last position in lo..hi holding a character outside
\* chars, 0 when there is none
firstNotIn(s, chars, lo, hi) ==
  IF \E k \in lo..hi : s[k] \notin chars
  THEN CHOOSE k \in lo..hi : s[k] \notin chars /\ \A j \in lo..(k - 1) : s[j] \in chars
  ELSE 0

lastNotIn(s, chars, lo, hi) ==
  IF \E k \in lo..hi : s[k] \notin chars
  THEN CHOOSE k \in lo..hi : s[k] \notin chars /\ \A j \in (k + 1)..hi : s[j] \in chars
  ELSE 0

\* s.substring(i-1, j) for 1-based inclusive i..j
Sub(s, i, j) == IF i > j THEN <<>> ELSE SubSeq(s, i, j)

trim(s) ==
  IF \A k \in 1..Len(s) : IsSpace(s[k]) THEN <<>>
  ELSE SubSeq(s, firstNotIn(s, SpaceChars, 1, Len(s)), lastNotIn(s, SpaceChars, 1, Len(s)))

LowerOf(c) ==
  IF \E i \in 1..26 : Uppers[i] = c
  THEN Lowers[CHOOSE i \in 1..26 : Uppers[i] = c]
  ELSE c

toLowerCase(s) == [i \in 1..Len(s) |-> LowerOf(s[i])]

\* pat occurs in s at position i
startsWithAt(s, pat, i) ==
  /\ i >= 1
  /\ i + Len(pat) - 1 <= Len(s)
  /\ \A k \in 1..Len(pat) : s[i + k - 1] = pat[k]

startsWith(s, pat) == startsWithAt(s, pat, 1)

endsWith(s, pat) == startsWithAt(s, pat, Len(s) - Len(pat) + 1)

includes(s, pat) == \E i \in 1..(Len(s) + 1) : startsWithAt(s, pat, i)

\* first position >= from where pat occurs, 0 when there is none
indexOfFrom(s, pat, from) ==
  IF \E k \in from..(Len(s) + 1) : startsWithAt(s, pat, k)
  THEN CHOOSE k \in from..(Len(s) + 1) :
         startsWithAt(s, pat, k) /\ \A j \in from..(k - 1) : ~startsWithAt(s, pat, j)
  ELSE 0

\* s.split('\n')
RECURSIVE splitFrom(_, _)
splitFrom(s, i) ==
  LET n == indexOfFrom(s, <<"\n">>, i)
  IN IF n = 0 THEN <<Sub(s, i, Len(s))>>
     ELSE <<Sub(s, i, n - 1)>> \o splitFrom(s, n + 1)

split(s) == splitFrom(s, 1)

\* lines.join('\n')
RECURSIVE joinFrom(_, _)
joinFrom(lines, i) ==
  IF i > Len(lines) THEN <<>>
  ELSE IF i = Len(lines) THEN lines[i]
  ELSE lines[i] \o <<"\n">> \o joinFrom(lines, i + 1)

join(lines) == joinFrom(lines, 1)

\* String(n) for a non-negative integer n
RECURSIVE intToString(_)
intToString(n) ==
  IF n < 10 THEN <<Digits[n + 1]>>
  ELSE Append(intToString(n \div 10), Digits[(n % 10) + 1])

\* last position of the run that starts at i and ends in front of stop,
\* the first position from i on that is not of the run (0: there is none);
\* i-1 when the run is empty
runBefore(s, i, stop) ==
  IF i > Len(s) THEN i - 1
  ELSE IF stop = 0 THEN Len(s) ELSE stop - 1

\* last position of the maximal run, starting at i, of characters outside
\* excl
runEnd(s, i, excl) == runBefore(s, i, firstIn(s, excl, i, Len(s)))

\* last position of the maximal run of \w characters starting at i
wordEnd(s, i) == runBefore(s, i, firstNotIn(s, WordChars, i, Len(s)))

\* last position of the maximal run of [\w\s] characters starting at i
wordSpaceEnd(s, i) == runBefore(s, i, firstNotIn(s, WordChars \cup SpaceChars, i, Len(s)))

\* last position of the maximal run of \s characters starting at i
spaceEnd(s, i) == runBefore(s, i, firstNotIn(s, SpaceChars, i, Len(s)))

\* The replacement patterns String.prototype.replace expands in a
\* replacement string: $$, $& and $' (no capture group is ever in scope
\* where the source passes a replacement string; the pattern made with the
\* backquote is left out, the backquote being no character of the model).
QUOTE1 == Chars("'")[1]

\* first position from i on of a replacement pattern in repl, 0 when there
\* is none
patternAt(repl, j) == repl[j] = "$" /\ repl[j + 1] \in {"$", "&", QUOTE1}
nextPattern(repl, i) ==
  IF \E k \in i..(Len(repl) - 1) : patternAt(repl, k)
  THEN CHOOSE k \in i..(Len(repl) - 1) :
         patternAt(repl, k) /\ \A j \in i..(k - 1) : ~patternAt(repl, j)
  ELSE 0

RECURSIVE expandReplacement(_, _, _, _, _)
expandReplacement(repl, i, subject, mstart, mend) ==
  LET k == nextPattern(repl, i)
  IN IF k = 0 THEN Sub(repl, i, Len(repl))
     ELSE Sub(repl, i, k - 1)
             \o (CASE repl[k + 1] = "$" -> <<"$">>
                   [] repl[k + 1] = "&" -> Sub(subject, mstart, mend)
                   [] repl[k + 1] = QUOTE1 -> Sub(subject, mend + 1, Len(subject)))
             \o expandReplacement(repl, k + 2, subject, mstart, mend)

\* text.replace(/"/g, '\\"')
RECURSIVE escapeQuotesFrom(_, _)
escapeQuotesFrom(text, i) ==
  LET n == indexOfFrom(text, <<"\"">>, i)
  IN IF n = 0 THEN Sub(text, i, Len(text))
     ELSE Sub(text, i, n - 1) \o <<"\\", "\"">> \o escapeQuotesFrom(text, n + 1)

\* a variant of escapeQuotes that leaves the double quotes as they are
keepQuotes(text) == text

escapeQuotes(text) == escapeQuotesFrom(text, 1)

\* ------------------------------------------------------------------------
\* MermaidConverter, dispatching revision (lines 1174-1560): flow dialect
\* ------------------------------------------------------------------------

SHAPE_TOKEN == Chars("@{ shape:")
MARKER == Chars("_MARKER_")

\* `@{ shape: ${shape}, label: "${cleanLabel}" }`
descriptor(shape, cleanLabel) ==
  Chars("@{ shape: ") \o shape \o Chars(", label: \"") \o cleanLabel \o Chars("\" }")

\* Map.prototype.set on a Map kept as the sequence of its entries in
\* insertion order: an existing key keeps its place
mapSet(defs, id, conv) ==
  IF \E k \in 1..Len(defs) : defs[k].id = id
  THEN [k \in 1..Len(defs) |-> IF defs[k].id = id THEN [id |-> id, conv |-> conv] ELSE defs[k]]
  ELSE Append(defs, [id |-> id, conv |-> conv])

\* One attempt of /(\w+)<open>([^<excl>]+)<close>/ at position s.  \w+ is
\* followed by a non-word character, so it is the maximal run; the label
\* class excludes the first character of <close>, so it is the maximal run.
matchShapeAt(line, s, open, excl, close) ==
  LET e == wordEnd(line, s)
      q == e + 1 + Len(open)
      r == runEnd(line, q, excl)
  IN IF e >= s /\ startsWithAt(line, open, e + 1) /\ r >= q /\ startsWithAt(line, close, r + 1)
     THEN [ok |-> TRUE, id |-> SubSeq(line, s, e), label |-> SubSeq(line, q, r),
           end |-> r + Len(close)]
     ELSE [ok |-> FALSE, id |-> <<>>, label |-> <<>>, end |-> 0]

\* line.replace(/(\w+)<open>([^<excl>]+)<close>/g, (match, nodeId, label) => ...)
\* with the callback shared by every shape but rect
\* with the callback shared by every shape but rect; the text between two
\* matches is copied, the search resumes behind the match
searchShape(line, p, open, excl, close) ==
  LET hits == {t \in p..Len(line) : matchShapeAt(line, t, open, excl, close).ok}
  IN IF hits = {} THEN 0 ELSE MinOf(hits)

RECURSIVE replaceShape(_, _, _, _, _, _, _, _)
replaceShape(line, p, out, defs, open, excl, close, shape) ==
  LET s == searchShape(line, p, open, excl, close)
  IN IF s = 0 THEN [line |-> out \o Sub(line, p, Len(line)), defs |-> defs]
     ELSE LET m == matchShapeAt(line, s, open, excl, close)
          IN replaceShape(line, m.end + 1, out \o Sub(line, p, s - 1) \o m.id \o MARKER,
                          mapSet(defs, m.id, descriptor(shape, trim(m.label))),
                          open, excl, close, shape)

\* ( \[ [^\[\]]* \] [^\[\]]* )* from position r on: the position reached
\* after the last complete iteration
RECURSIVE rectGroups(_, _)
rectGroups(line, r) ==
  IF r <= Len(line) /\ line[r] = "["
  THEN LET c == runEnd(line, r + 1, {"[", "]"}) + 1
       IN IF c <= Len(line) /\ line[c] = "]"
          THEN rectGroups(line, runEnd(line, c + 1, {"[", "]"}) + 1)
          ELSE r
  ELSE r

\* One attempt of /(\w+)\[([^\[\]]*(?:\[[^\[\]]*\][^\[\]]*)*)\]/ at s
matchRectAt(line, s) ==
  LET e == wordEnd(line, s)
      q == e + 2
      r == rectGroups(line, runEnd(line, q, {"[", "]"}) + 1)
  IN IF e >= s /\ startsWithAt(line, <<"[">>, e + 1) /\ r <= Len(line) /\ line[r] = "]"
     THEN [ok |-> TRUE, id |-> SubSeq(line, s, e), label |-> Sub(line, q, r - 1), end |-> r]
     ELSE [ok |-> FALSE, id |-> <<>>, label |-> <<>>, end |-> 0]

searchRect(line, p) ==
  LET hits == {t \in p..Len(line) : matchRectAt(line, t).ok}
  IN IF hits = {} THEN 0 ELSE MinOf(hits)

RECURSIVE replaceRect(_, _, _, _)
replaceRect(line, p, out, defs) ==
  LET s == searchRect(line, p)
  IN IF s = 0 THEN [line |-> out \o Sub(line, p, Len(line)), defs |-> defs]
     ELSE LET m == matchRectAt(line, s)
          IN replaceRect(line, m.end + 1, out \o Sub(line, p, s - 1) \o m.id \o MARKER,
                         mapSet(defs, m.id, descriptor(Chars("rect"), escapeQuotes(trim(m.label)))))

processRectangleShape(s) == replaceRect(s.line, 1, <<>>, s.defs)

processDiamondShape(s) ==
  replaceShape(s.line, 1, <<>>, s.defs, Chars("{"), {"}"}, Chars("}"), Chars("diam"))

processCircleShape(s) ==
  replaceShape(s.line, 1, <<>>, s.defs, Chars("(("), {")"}, Chars("))"), Chars("circle"))

processAsymmetricShape(s) ==
  replaceShape(s.line, 1, <<>>, s.defs, Chars(">"), {"]"}, Chars("]"), Chars("odd"))

processHexagonShape(s) ==
  replaceShape(s.line, 1, <<>>, s.defs, Chars("{{"), {"}"}, Chars("}}"), Chars("hex"))

processParallelogramRight(s) ==
  replaceShape(s.line, 1, <<>>, s.defs, Chars("[/"), {"/"}, Chars("/]"), Chars("lean-r"))

processParallelogramLeft(s) ==
  replaceShape(s.line, 1, <<>>, s.defs, Chars("[\\"), {"\\"}, Chars("\\]"), Chars("lean-l"))

processTrapezoid(s) ==
  replaceShape(s.line, 1, <<>>, s.defs, Chars("[/"), {"\\"}, Chars("\\]"), Chars("trap-t"))

processTrapezoidAlt(s) ==
  replaceShape(s.line, 1, <<>>, s.defs, Chars("[\\"), {"/"}, Chars("/]"), Chars("trap-b"))

processDoubleCircle(s) ==
  replaceShape(s.line, 1, <<>>, s.defs, Chars("((("), {")"}, Chars(")))"), Chars("doublecircle"))

processSubroutineShape(s) ==
  replaceShape(s.line, 1, <<>>, s.defs, Chars("[["), {"]"}, Chars("]]"), Chars("subroutine"))

processCylinderShape(s) ==
  replaceShape(s.line, 1, <<>>, s.defs, Chars("[("), {")"}, Chars(")]"), Chars("cyl"))

processStadiumShape(s) ==
  replaceShape(s.line, 1, <<>>, s.defs, Chars("(["), {"]"}, Chars("])"), Chars("stadium"))

processRoundedShape(s) ==
  replaceShape(s.line, 1, <<>>, s.defs, Chars("("), {")"}, Chars(")"), Chars("rounded"))

\* result.replace(new RegExp(`${nodeId}_MARKER_`, 'g'), `${nodeId}${conversion}`)
RECURSIVE replaceAllLiteral(_, _, _, _)
replaceAllLiteral(subject, p, pat, repl) ==
  LET n == indexOfFrom(subject, pat, p)
  IN IF n = 0 THEN Sub(subject, p, Len(subject))
     ELSE Sub(subject, p, n - 1)
          \o expandReplacement(repl, 1, subject, n, n + Len(pat) - 1)
          \o replaceAllLiteral(subject, n + Len(pat), pat, repl)

RECURSIVE replaceMarkersFrom(_, _, _)
replaceMarkersFrom(result, nodeDefinitions, k) ==
  IF k > Len(nodeDefinitions) THEN result
  ELSE replaceMarkersFrom(
         replaceAllLiteral(result, 1, nodeDefinitions[k].id \o MARKER,
                           nodeDefinitions[k].id \o nodeDefinitions[k].conv),
         nodeDefinitions, k + 1)

replaceMarkersWithConversions(s) == replaceMarkersFrom(s.line, s.defs, 1)

\* processedLine = this.processXShape(processedLine, nodeDefinitions), in the
\* order of the calls: s holds the line the previous call returned and the
\* Map it filled, and each call returns both
processNodeDefinitions(line) ==
  replaceMarkersWithConversions(
    processRoundedShape(
    processAsymmetricShape(
    processDiamondShape(
    processRectangleShape(
    processCircleShape(
    processStadiumShape(
    processCylinderShape(
    processTrapezoidAlt(
    processTrapezoid(
    processParallelogramLeft(
    processParallelogramRight(
    processHexagonShape(
    processSubroutineShape(
    processDoubleCircle([line |-> line, defs |-> <<>>])))))))))))))))

\* processedLine.replace(/\|([^|]+)\|/g, ...) of processFlowchartDiagram:
\* a label already wrapped in double quotes is returned as matched
\* /\|([^|]+)\|/ matches at t: a bar, a non-empty run without a bar, a bar
edgeLabelAt(line, t) ==
  /\ line[t] = "|"
  /\ runEnd(line, t + 1, {"|"}) >= t + 1
  /\ runEnd(line, t + 1, {"|"}) + 1 <= Len(line)

searchEdgeLabel(line, p) ==
  LET hits == {t \in p..Len(line) : edgeLabelAt(line, t)}
  IN IF hits = {} THEN 0 ELSE MinOf(hits)

RECURSIVE quoteEdgeLabelsFrom(_, _)
quoteEdgeLabelsFrom(line, p) ==
  LET s == searchEdgeLabel(line, p)
  IN IF s = 0 THEN Sub(line, p, Len(line))
     ELSE LET r == runEnd(line, s + 1, {"|"})
              trimmedLabel == trim(SubSeq(line, s + 1, r))
          IN Sub(line, p, s - 1)
             \o (IF startsWith(trimmedLabel, <<"\"">>) /\ endsWith(trimmedLabel, <<"\"">>)
                 THEN SubSeq(line, s, r + 1)
                 ELSE <<"|", "\"">> \o escapeQuotes(trimmedLabel) \o <<"\"", "|">>)
             \o quoteEdgeLabelsFrom(line, r + 2)

quoteEdgeLabels(line) == quoteEdgeLabelsFrom(line, 1)

\* the body of the loop of processFlowchartDiagram
processFlowchartLine(line) ==
  IF trim(line) = <<>> THEN line
  ELSE IF includes(line, SHAPE_TOKEN) THEN line
  ELSE processNodeDefinitions(quoteEdgeLabels(line))

processFlowchartDiagram(lines) == [k \in 1..Len(lines) |-> processFlowchartLine(lines[k])]

\* a variant of the classification that looks for the keywords in the whole
\* text instead of its first line
detectInWholeText(mermaidCode) ==
  LET text == toLowerCase(trim(mermaidCode))
  IN CASE includes(text, Chars("sequencediagram")) -> "sequence"
       [] includes(text, Chars("flowchart")) -> "flowchart"
       [] includes(text, Chars("graph")) -> "graph"
       [] includes(text, Chars("gantt")) -> "gantt"
       [] includes(text, Chars("pie")) -> "pie"
       [] OTHER -> "unknown"

\* a variant of the classification that takes a source without a known
\* keyword for a sequence diagram
detectSequenceByDefault(mermaidCode) ==
  LET firstLine == toLowerCase(split(trim(mermaidCode))[1])
  IN CASE includes(firstLine, Chars("flowchart")) -> "flowchart"
       [] includes(firstLine, Chars("graph")) -> "graph"
       [] OTHER -> "sequence"

\* mermaidCode.trim().split('\n')[0].toLowerCase() and the keyword tests;
\* the keywords with an upper-case letter can never be found in it
detectDiagramType(mermaidCode) ==
  LET firstLine == toLowerCase(split(trim(mermaidCode))[1])
  IN CASE includes(firstLine, Chars("sequencediagram")) -> "sequence"
       [] includes(firstLine, Chars("flowchart")) -> "flowchart"
       [] includes(firstLine, Chars("graph")) -> "graph"
       [] includes(firstLine, Chars("classDiagram")) -> "class"
       [] includes(firstLine, Chars("stateDiagram")) -> "state"
       [] includes(firstLine, Chars("erDiagram")) -> "er"
       [] includes(firstLine, Chars("gantt")) -> "gantt"
       [] includes(firstLine, Chars("pie")) -> "pie"
       [] includes(firstLine, Chars("gitGraph")) -> "git"
       [] OTHER -> "unknown"


\* ------------------------------------------------------------------------
\* MermaidConverter, dispatching revision: sequence dialect (lines 1192-1271)
\* ------------------------------------------------------------------------

NO_MATCH == [ok |-> FALSE, indent |-> <<>>, from |-> <<>>, arrow |-> <<>>,
             to |-> <<>>, message |-> <<>>]

\* last position in i..j holding a non-space character (i..j holds one)
lastNonSpace(s, i, j) == lastNotIn(s, SpaceChars, i, j)

\* /^(\s*)([\w\s]+?)\s*(--?>>|\->>)<mark>\s*([\w\s]+?)\s*:\s*(.+)$/ with
\* <mark> one of \+ and \-.
\* The arrow is the first character outside [\w\s].  (\s*) is greedy and
\* ([\w\s]+?) lazy: indent is the leading white space and the lazy group
\* stops before the white space in front of the arrow; when only white
\* space precedes the arrow, indent gives its last character to the group.
\* The same holds of \s*([\w\s]+?)\s* in front of the colon, and of
\* \s*(.+) behind it.
matchMarked(line, mark) ==
  LET p == wordSpaceEnd(line, 1)
      w == spaceEnd(line, 1)
      indentEnd == IF w = p THEN p - 1 ELSE w
      fromEnd == IF w = p THEN p ELSE lastNonSpace(line, w + 1, p)
      arrowLen == IF startsWithAt(line, Chars("-->>"), p + 1) THEN 4
                  ELSE IF startsWithAt(line, Chars("->>"), p + 1) THEN 3 ELSE 0
      m == p + arrowLen + 1
      q == m + 1
      r == wordSpaceEnd(line, q)
      u == spaceEnd(line, q)
      toStart == IF u = r THEN r ELSE u + 1
      toEnd == IF u = r THEN r ELSE lastNonSpace(line, u + 1, r)
      c == r + 1
      v == spaceEnd(line, c + 1)
      msgStart == IF v = Len(line) THEN Len(line) ELSE v + 1
  IN IF /\ p >= 1
        /\ arrowLen > 0
        /\ m <= Len(line) /\ line[m] = mark
        /\ r >= q
        /\ c < Len(line) /\ line[c] = ":"
     THEN [ok |-> TRUE,
           indent |-> Sub(line, 1, indentEnd),
           from |-> SubSeq(line, indentEnd + 1, fromEnd),
           arrow |-> SubSeq(line, p + 1, p + arrowLen),
           to |-> SubSeq(line, toStart, toEnd),
           message |-> SubSeq(line, msgStart, Len(line))]
     ELSE NO_MATCH

\* a variant of deactivatePattern that finds no deactivation
matchNothing(line) == NO_MATCH

activatePattern(line) == matchMarked(line, "+")
deactivatePattern(line) == matchMarked(line, "-")

\* `${indent}${from}${arrow}${to}: ${message}`
rebuild(m, message) == m.indent \o m.from \o m.arrow \o m.to \o <<":", " ">> \o message

\* Map<string, number[]> as the sequence of its entries in insertion order
stackOf(activationStacks, key) ==
  IF \E k \in 1..Len(activationStacks) : activationStacks[k].key = key
  THEN activationStacks[CHOOSE k \in 1..Len(activationStacks) : activationStacks[k].key = key].stack
  ELSE <<>>

setStack(activationStacks, key, stack) ==
  IF \E k \in 1..Len(activationStacks) : activationStacks[k].key = key
  THEN [k \in 1..Len(activationStacks) |->
          IF activationStacks[k].key = key THEN [key |-> key, stack |-> stack]
          ELSE activationStacks[k]]
  ELSE Append(activationStacks, [key |-> key, stack |-> stack])

\* a variant of firstPassStep in which a deactivation consumes every pending
\* activation of its sender
firstPassStepClearing(st, i) ==
  LET line == st.result[i]
      activateMatch == activatePattern(line)
      deactivateMatch == deactivatePattern(line)
  IN IF activateMatch.ok
     THEN LET target == trim(activateMatch.to)
          IN [st EXCEPT !.activationStacks =
                setStack(@, target, Append(stackOf(@, target), i))]
     ELSE IF deactivateMatch.ok
     THEN LET from == trim(deactivateMatch.from)
              stack == stackOf(st.activationStacks, from)
          IN IF Len(stack) > 0
             THEN [st EXCEPT !.activationStacks = setStack(@, from, <<>>)]
             ELSE [st EXCEPT !.result[i] = rebuild(deactivateMatch, deactivateMatch.message)]
     ELSE st

\* One iteration, for line i, of the first loop of
\* normalizeSequenceActivations on st = [result, activationStacks].  The
\* stacks hold 1-based line positions.
firstPassStep(st, i) ==
  LET line == st.result[i]
      activateMatch == activatePattern(line)
      deactivateMatch == deactivatePattern(line)
  IN IF activateMatch.ok
     THEN LET target == trim(activateMatch.to)
          IN [st EXCEPT !.activationStacks =
                setStack(@, target, Append(stackOf(@, target), i))]
     ELSE IF deactivateMatch.ok
     THEN LET from == trim(deactivateMatch.from)
              stack == stackOf(st.activationStacks, from)
          IN IF Len(stack) > 0
             THEN [st EXCEPT !.activationStacks =
                     setStack(@, from, SubSeq(stack, 1, Len(stack) - 1))]
             ELSE [st EXCEPT !.result[i] = rebuild(deactivateMatch, deactivateMatch.message)]
     ELSE st

\* a variant of the body of the second loop that leaves the line alone
stripNoActivation(result, lineIndex) == result

\* the body of stack.forEach(lineIndex => ...) of the second loop
stripActivation(result, lineIndex) ==
  LET match == activatePattern(result[lineIndex])
  IN IF match.ok THEN [result EXCEPT ![lineIndex] = rebuild(match, match.message)]
     ELSE result

RECURSIVE stripStack(_, _, _)
stripStack(result, stack, k) ==
  IF k > Len(stack) THEN result
  ELSE stripStack(stripActivation(result, stack[k]), stack, k + 1)

\* activationStacks.forEach(stack => stack.forEach(...))
RECURSIVE secondPassFrom(_, _, _)
secondPassFrom(result, activationStacks, k) ==
  IF k > Len(activationStacks) THEN result
  ELSE secondPassFrom(stripStack(result, activationStacks[k].stack, 1), activationStacks, k + 1)

\* a variant of the second pass that strips no marker
secondPassKeeping(st) == st.result

secondPass(st) == secondPassFrom(st.result, st.activationStacks, 1)

RECURSIVE firstPassFrom(_, _)
firstPassFrom(st, i) ==
  IF i > Len(st.result) THEN st ELSE firstPassFrom(firstPassStep(st, i), i + 1)

normalizeSequenceActivations(lines) ==
  secondPass(firstPassFrom([result |-> lines, activationStacks |-> <<>>], 1))

\* the alternatives of (->>\+?|-->>\-?|->>|-->>|-x|->|-->) in the order the
\* engine tries them, the greedy optional marker first
MESSAGE_ARROWS ==
  <<Chars("->>+"), Chars("->>"), Chars("-->>-"), Chars("-->>"), Chars("->>"),
    Chars("-->>"), Chars("-x"), Chars("->"), Chars("-->")>>

\* /^(\s*)([\w\s]+)(->>\+?|-->>\-?|->>|-->>|-x|->|-->)([\w\s]+):\s*(.+)$/
\* Both [\w\s]+ groups are greedy and end where the class ends: the arrow
\* starts at the first character outside the class, and the colon follows
\* the receiver run at once.
messagePattern(line) ==
  LET p == wordSpaceEnd(line, 1)
      w == spaceEnd(line, 1)
      indentEnd == IF w = p THEN p - 1 ELSE w
      fits(a) == /\ startsWithAt(line, a, p + 1)
                 /\ LET q == p + 1 + Len(a)
                        r == wordSpaceEnd(line, q)
                    IN r >= q /\ r + 1 < Len(line) /\ line[r + 1] = ":"
      alts == {k \in 1..Len(MESSAGE_ARROWS) : fits(MESSAGE_ARROWS[k])}
  IN IF p >= 1 /\ alts # {}
     THEN LET a == MESSAGE_ARROWS[MinOf(alts)]
              q == p + 1 + Len(a)
              r == wordSpaceEnd(line, q)
              v == spaceEnd(line, r + 2)
              msgStart == IF v = Len(line) THEN Len(line) ELSE v + 1
          IN [ok |-> TRUE,
              indent |-> Sub(line, 1, indentEnd),
              from |-> SubSeq(line, indentEnd + 1, p),
              arrow |-> a,
              to |-> SubSeq(line, q, r),
              message |-> SubSeq(line, msgStart, Len(line))]
     ELSE NO_MATCH

\* message.replace(/;/g, '#59;')
RECURSIVE escapeSemicolonsFrom(_, _)
escapeSemicolonsFrom(message, i) ==
  LET n == indexOfFrom(message, <<";">>, i)
  IN IF n = 0 THEN Sub(message, i, Len(message))
     ELSE Sub(message, i, n - 1) \o Chars("#59;") \o escapeSemicolonsFrom(message, n + 1)

escapeSemicolons(message) == escapeSemicolonsFrom(message, 1)

\* the body of the loop of processSequenceDiagram
processSequenceLine(line) ==
  LET match == messagePattern(line)
  IN IF match.ok THEN rebuild(match, escapeSemicolons(match.message)) ELSE line

processSequenceDiagram(lines) ==
  LET normalizedLines == normalizeSequenceActivations(lines)
  IN [k \in 1..Len(normalizedLines) |-> processSequenceLine(normalizedLines[k])]

toNewSyntax(mermaidCode) ==
  LET lines == split(mermaidCode)
      diagramType == detectDiagramType(mermaidCode)
  IN join(IF diagramType = "sequence"
          THEN processSequenceDiagram(lines)
          ELSE processFlowchartDiagram(lines))

\* ------------------------------------------------------------------------
\* handleEscapedCharacters (lines 560-591 and 1566-1597, the same text)
\* ------------------------------------------------------------------------

\* One attempt of /(\w+)<open>(.+?)<close>/ at position s.  \w+ is followed
\* by a non-word character, so it is the maximal run; the lazy group takes
\* at least one character and stops at the first <close> behind it.
matchLazyAt(line, s, open, close) ==
  LET e == wordEnd(line, s)
      q == e + 1 + Len(open)
      k == indexOfFrom(line, close, q + 1)
  IN IF e >= s /\ startsWithAt(line, open, e + 1) /\ k # 0
     THEN [ok |-> TRUE, id |-> SubSeq(line, s, e), label |-> SubSeq(line, q, k - 1),
           end |-> k + Len(close) - 1]
     ELSE [ok |-> FALSE, id |-> <<>>, label |-> <<>>, end |-> 0]

\* line.replace(/(\w+)<open>(.+?)<close>/g,
\*              (match, nodeId, content) => `${nodeId}${pre}${content}${post}`)
searchLazy(line, p, open, close) ==
  LET hits == {t \in p..Len(line) : matchLazyAt(line, t, open, close).ok}
  IN IF hits = {} THEN 0 ELSE MinOf(hits)

RECURSIVE replaceEscaped(_, _, _, _, _, _)
replaceEscaped(line, p, open, close, pre, post) ==
  LET s == searchLazy(line, p, open, close)
  IN IF s = 0 THEN Sub(line, p, Len(line))
     ELSE LET m == matchLazyAt(line, s, open, close)
          IN Sub(line, p, s - 1) \o m.id \o pre \o m.label \o post
             \o replaceEscaped(line, m.end + 1, open, close, pre, post)

\* a variant of the loop body that rewrites the nodes and leaves the other
\* escaped delimiters as they are
handleEscapedNodes(line) ==
  IF trim(line) = <<>> \/ startsWith(trim(line), Chars("graph"))
     \/ startsWith(trim(line), Chars("flowchart"))
  THEN line
  ELSE replaceEscaped(replaceEscaped(line, 1, Chars("[\\["), Chars("\\]]"),
                                     Chars("[\"["), Chars("]\"]")),
                      1, Chars("\\{"), Chars("\\}"), Chars("[\"{"), Chars("}\"]"))

\* the body of the loop of handleEscapedCharacters
handleEscapedLine(line) ==
  IF trim(line) = <<>> \/ startsWith(trim(line), Chars("graph"))
     \/ startsWith(trim(line), Chars("flowchart"))
  THEN line
  ELSE LET l1 == replaceEscaped(line, 1, Chars("[\\["), Chars("\\]]"),
                                Chars("[\"["), Chars("]\"]"))
           l2 == replaceEscaped(l1, 1, Chars("\\{"), Chars("\\}"),
                                Chars("[\"{"), Chars("}\"]"))
           l3 == replaceAllLiteral(l2, 1, Chars("\\["), Chars("["))
           l4 == replaceAllLiteral(l3, 1, Chars("\\]"), Chars("]"))
           l5 == replaceAllLiteral(l4, 1, Chars("\\{"), Chars("{"))
       IN replaceAllLiteral(l5, 1, Chars("\\}"), Chars("}"))

handleEscapedCharacters(chart) ==
  LET lines == split(chart)
  IN join([k \in 1..Len(lines) |-> handleEscapedLine(lines[k])])

\* the test of preprocessChart that decides whether the pre-pass runs
hasEscapedBracket(chart) ==
  \/ includes(chart, Chars("\\["))
  \/ includes(chart, Chars("\\]"))
  \/ includes(chart, Chars("\\{"))
  \/ includes(chart, Chars("\\}"))

\* preprocessChart of the dispatching revision (lines 1646-1665)
preprocessChart(chart) ==
  LET escapedChart == IF hasEscapedBracket(chart) THEN handleEscapedCharacters(chart)
                      ELSE chart
  IN toNewSyntax(escapedChart)

\* ------------------------------------------------------------------------
\* MermaidConverter, depth-scanning revision (lines 314-554)
\* ------------------------------------------------------------------------

TEMP_MARKER == Chars("___NODE___")

\* escaped.replace(/:/g, '&#58;') behind the quote escape, for a text that
\* holds ://
escapeLabelForMermaid(text) ==
  LET escaped == escapeQuotes(text)
  IN IF includes(escaped, Chars("://"))
     THEN replaceAllLiteral(escaped, 1, <<":">>, Chars("&#58;"))
     ELSE escaped

createNodeConversion(nodeId, shape, label) ==
  nodeId \o Chars("@{ shape: ") \o shape \o Chars(", label: \"")
         \o escapeLabelForMermaid(trim(label)) \o Chars("\" }")

\* index counts from 0, as in the source
createPlaceholder(prefix, index) ==
  prefix \o TEMP_MARKER \o intToString(index) \o TEMP_MARKER

\* The loop shared by findMatchingBracket and findMatchingParenthesis,
\* taken from one openChar or closeChar to the next (no other character
\* changes depth); 0 stands for the -1 of the source, positions are 1-based
RECURSIVE scanDepth(_, _, _, _, _)
scanDepth(text, i, depth, openChar, closeChar) ==
  LET k == firstIn(text, {openChar, closeChar}, i, Len(text))
  IN IF k = 0 THEN 0
     ELSE IF text[k] = openChar THEN scanDepth(text, k + 1, depth + 1, openChar, closeChar)
     ELSE IF depth - 1 = 0 THEN k
     ELSE scanDepth(text, k + 1, depth - 1, openChar, closeChar)

findMatchingParenthesis(text, startPos, openChar, closeChar) ==
  scanDepth(text, startPos, 0, openChar, closeChar)

findMatchingBracket(text, startPos) == findMatchingParenthesis(text, startPos, "[", "]")

\* the alternatives of (^|\s|-->|---|--|==|==>|\.\.>) behind ^ and \s, in
\* the order the engine tries them
PREFIX_ARROWS == <<Chars("-->"), Chars("---"), Chars("--"), Chars("=="), Chars("==>"),
                   Chars("..>")>>

\* One attempt of /(^|\s|-->|---|--|==|==>|\.\.>)(\w+)<openChar>/ at s: the
\* length of the prefix of the first alternative behind which \w+<openChar>
\* follows, -1 when there is none
prefixLenAt(line, s, openChar) ==
  LET follows(n) == LET e == wordEnd(line, s + n)
                    IN e >= s + n /\ e + 1 <= Len(line) /\ line[e + 1] = openChar
      arrows == {k \in 1..Len(PREFIX_ARROWS) :
                   startsWithAt(line, PREFIX_ARROWS[k], s) /\ follows(Len(PREFIX_ARROWS[k]))}
  IN IF s = 1 /\ follows(0) THEN 0
     ELSE IF IsSpace(line[s]) /\ follows(1) THEN 1
     ELSE IF arrows # {} THEN Len(PREFIX_ARROWS[MinOf(arrows)])
     ELSE -1

\* regex.exec(processedLine) from regex.lastIndex = p - 1 on: match.index
searchPrefix(line, p, openChar) ==
  LET hits == {t \in p..Len(line) : prefixLenAt(line, t, openChar) >= 0}
  IN IF hits = {} THEN 0 ELSE MinOf(hits)

\* the while loop of processShapeWithRegex from regex.lastIndex = p - 1 on
RECURSIVE processShapeWithRegex(_, _, _, _, _, _)

\* the body of the loop for a match at index with the given prefix, whose
\* node id ends at idEnd and whose label is closed at endPos (0: nowhere)
replaceMatch(line, nodeDefinitions, index, prefix, idEnd, endPos, shape, openChar, closeChar) ==
  IF endPos # 0
  THEN LET placeholder == createPlaceholder(prefix, Len(nodeDefinitions))
       IN processShapeWithRegex(
            Sub(line, 1, index - 1) \o placeholder \o Sub(line, endPos + 1, Len(line)),
            Append(nodeDefinitions,
                   createNodeConversion(SubSeq(line, index + Len(prefix), idEnd), shape,
                                        Sub(line, idEnd + 2, endPos - 1))),
            index + Len(placeholder), shape, openChar, closeChar)
  ELSE processShapeWithRegex(line, nodeDefinitions, idEnd + 2, shape, openChar, closeChar)

\* startPos = match.index + match[0].length - 1 = idEnd + 1, and endPos
closeMatch(line, nodeDefinitions, index, prefix, idEnd, shape, openChar, closeChar) ==
  replaceMatch(line, nodeDefinitions, index, prefix, idEnd,
               IF openChar = "["
               THEN findMatchingBracket(line, idEnd + 1)
               ELSE findMatchingParenthesis(line, idEnd + 1, openChar, closeChar),
               shape, openChar, closeChar)

\* const [fullMatch, prefix, nodeId] = match
readMatch(line, nodeDefinitions, index, prefix, shape, openChar, closeChar) ==
  closeMatch(line, nodeDefinitions, index, prefix, wordEnd(line, index + Len(prefix)),
             shape, openChar, closeChar)

execMatch(line, nodeDefinitions, index, shape, openChar, closeChar) ==
  IF index = 0 THEN [line |-> line, defs |-> nodeDefinitions]
  ELSE readMatch(line, nodeDefinitions, index,
                 Sub(line, index, index + prefixLenAt(line, index, openChar) - 1),
                 shape, openChar, closeChar)

processShapeWithRegex(line, nodeDefinitions, p, shape, openChar, closeChar) ==
  execMatch(line, nodeDefinitions, searchPrefix(line, p, openChar), shape, openChar, closeChar)

\* One iteration of the while loop with regex.lastIndex = lastIndex: the
\* line, the definitions and regex.lastIndex it leaves, and whether exec
\* found no match and the loop is left

\* a variant of the loop body that sets regex.lastIndex to the start of the
\* placeholder
replaceStepAtStart(line, nodeDefinitions, index, plen, idEnd, endPos, shape) ==
  IF endPos # 0
  THEN [line |-> Sub(line, 1, index - 1)
                 \o createPlaceholder(Sub(line, index, index + plen - 1), Len(nodeDefinitions))
                 \o Sub(line, endPos + 1, Len(line)),
        defs |-> Append(nodeDefinitions,
                        createNodeConversion(SubSeq(line, index + plen, idEnd), shape,
                                             Sub(line, idEnd + 2, endPos - 1))),
        lastIndex |-> index - 1,
        done |-> FALSE]
  ELSE [line |-> line, defs |-> nodeDefinitions, lastIndex |-> idEnd + 1, done |-> FALSE]

\* lines 448-461 for a match at index with a prefix of plen characters, a
\* node id that ends at idEnd and a label closed at endPos (0: nowhere)
replaceStep(line, nodeDefinitions, index, plen, idEnd, endPos, shape) ==
  IF endPos # 0
  THEN [line |-> Sub(line, 1, index - 1)
                 \o createPlaceholder(Sub(line, index, index + plen - 1), Len(nodeDefinitions))
                 \o Sub(line, endPos + 1, Len(line)),
        defs |-> Append(nodeDefinitions,
                        createNodeConversion(SubSeq(line, index + plen, idEnd), shape,
                                             Sub(line, idEnd + 2, endPos - 1))),
        lastIndex |-> index - 1 + plen + Len(createPlaceholder(<<>>, Len(nodeDefinitions))),
        done |-> FALSE]
  ELSE [line |-> line, defs |-> nodeDefinitions, lastIndex |-> idEnd + 1, done |-> FALSE]

\* lines 439-446: the node id and the closing character
closeStep(line, nodeDefinitions, index, plen, idEnd, shape, openChar, closeChar) ==
  replaceStep(line, nodeDefinitions, index, plen, idEnd,
              IF openChar = "["
              THEN findMatchingBracket(line, idEnd + 1)
              ELSE findMatchingParenthesis(line, idEnd + 1, openChar, closeChar),
              shape)

\* regex.exec(line) and the loop body behind it
execStep(line, nodeDefinitions, index, shape, openChar, closeChar) ==
  IF index = 0
  THEN [line |-> line, defs |-> nodeDefinitions, lastIndex |-> 0, done |-> TRUE]
  ELSE closeStep(line, nodeDefinitions, index, prefixLenAt(line, index, openChar),
                 wordEnd(line, index + prefixLenAt(line, index, openChar)),
                 shape, openChar, closeChar)

processRoundedShapeV1(s) ==
  processShapeWithRegex(s.line, s.defs, 1, Chars("rounded"), "(", ")")

processRectShape(s) ==
  processShapeWithRegex(s.line, s.defs, 1, Chars("rect"), "[", "]")

\* processedLine.replace(regex, (match, nodeId, label) => ...) for a regex
\* /(\w+)<open>(.+?)<close>/g of nodePatterns
RECURSIVE replaceOther(_, _, _, _, _, _, _)
replaceOther(line, p, out, defs, open, close, shape) ==
  LET s == searchLazy(line, p, open, close)
  IN IF s = 0 THEN [line |-> out \o Sub(line, p, Len(line)), defs |-> defs]
     ELSE LET m == matchLazyAt(line, s, open, close)
          IN replaceOther(line, m.end + 1,
                          out \o Sub(line, p, s - 1) \o createPlaceholder(<<>>, Len(defs)),
                          Append(defs, createNodeConversion(m.id, shape, m.label)),
                          open, close, shape)

processOtherShapes(s, open, close, shape) ==
  replaceOther(s.line, 1, <<>>, s.defs, open, close, shape)

\* result.replace(marker, conversions[i]): a string pattern, so the first
\* occurrence only, and a replacement string, so its $ patterns expand
replaceFirstLiteral(subject, pat, repl) ==
  LET n == indexOfFrom(subject, pat, 1)
  IN IF n = 0 THEN subject
     ELSE Sub(subject, 1, n - 1)
          \o expandReplacement(repl, 1, subject, n, n + Len(pat) - 1)
          \o Sub(subject, n + Len(pat), Len(subject))

RECURSIVE replaceMarkersFromV1(_, _, _)
replaceMarkersFromV1(result, conversions, k) ==
  IF k > Len(conversions) THEN result
  ELSE replaceMarkersFromV1(
         replaceFirstLiteral(result, createPlaceholder(<<>>, k - 1), conversions[k]),
         conversions, k + 1)

replaceMarkersWithConversionsV1(s) == replaceMarkersFromV1(s.line, s.defs, 1)

\* the patterns of nodePatterns the loop does not skip, in their order
\* s holds the line the previous pattern returned and the definitions
\* collected so far
processNodeDefinitionsV1(line) ==
  replaceMarkersWithConversionsV1(
    processRoundedShapeV1(
    processRectShape(
    processOtherShapes(
    processOtherShapes(
    processOtherShapes(
    processOtherShapes(
    processOtherShapes(
    processOtherShapes(
    processOtherShapes(
    processOtherShapes(
    processOtherShapes(
    processOtherShapes(
    processOtherShapes(
    processOtherShapes([line |-> line, defs |-> <<>>],
      Chars("((("), Chars(")))"), Chars("dbl-circ")),
      Chars("[["), Chars("]]"), Chars("subroutine")),
      Chars("{{"), Chars("}}"), Chars("hex")),
      Chars("(["), Chars("])"), Chars("stadium")),
      Chars("[("), Chars(")]"), Chars("cylinder")),
      Chars("(("), Chars("))"), Chars("circle")),
      Chars("[/"), Chars("/]"), Chars("lean-r")),
      Chars("[\\"), Chars("\\]"), Chars("lean-l")),
      Chars("[/"), Chars("\\]"), Chars("trap-b")),
      Chars("[\\"), Chars("/]"), Chars("trap-t")),
      Chars(">"), Chars("]"), Chars("odd")),
      Chars("{"), Chars("}"), Chars("diam")))))

\* processedLine.replace(/\|([^|]+)\|/g, ...) of this revision: every label
\* is quoted again
RECURSIVE quoteEdgeLabelsFromV1(_, _)
quoteEdgeLabelsFromV1(line, p) ==
  LET s == searchEdgeLabel(line, p)
  IN IF s = 0 THEN Sub(line, p, Len(line))
     ELSE LET r == runEnd(line, s + 1, {"|"})
          IN Sub(line, p, s - 1)
             \o <<"|", "\"">> \o escapeQuotes(trim(SubSeq(line, s + 1, r))) \o <<"\"", "|">>
             \o quoteEdgeLabelsFromV1(line, r + 2)

\* the body of the loop of toNewSyntax
processLineV1(line) ==
  IF trim(line) = <<>> \/ startsWith(trim(line), Chars("graph"))
     \/ startsWith(trim(line), Chars("flowchart"))
  THEN line
  ELSE processNodeDefinitionsV1(quoteEdgeLabelsFromV1(line, 1))

toNewSyntaxV1(mermaidCode) ==
  LET lines == split(mermaidCode)
  IN join([k \in 1..Len(lines) |-> processLineV1(lines[k])])

\* ------------------------------------------------------------------------
\* checkLabelBracketBalance (lines 594-636 and 1600-1642, the same text) and
\* preprocessChart of the depth-scanning revision (lines 639-677)
\* ------------------------------------------------------------------------

\* the number of backslashes that stand, from position from on, right in
\* front of position k
backslashesBefore(text, from, k) ==
  LET j == lastNotIn(text, {"\\"}, from, k - 1)
  IN k - 1 - (IF j = 0 THEN from - 1 ELSE j)

\* position k is reached with the flag escaped set, or in the second half
\* of \\. : backslashes pair up from the start of their run
isEscaped(text, from, k) == backslashesBefore(text, from, k) % 2 = 1

\* the position at which (?:[^"\\]|\\.)* stops when started at from: the
\* first unescaped double quote, or unescaped backslash that no character
\* but a line end follows, or the end of the text.  Giving back iterations
\* cannot produce a match, each iteration starting with a character that is
\* no double quote.
labelBodyStopsAt(text, from, k) ==
  /\ ~isEscaped(text, from, k)
  /\ \/ text[k] = "\""
     \/ text[k] = "\\" /\ (k = Len(text) \/ text[k + 1] = "\n")

labelBodyEnd(text, from) ==
  IF \E k \in from..Len(text) : labelBodyStopsAt(text, from, k)
  THEN CHOOSE k \in from..Len(text) :
         /\ labelBodyStopsAt(text, from, k)
         /\ \A j \in from..(k - 1) : ~labelBodyStopsAt(text, from, j)
  ELSE Len(text) + 1

\* One attempt of /label: "((?:[^"\\]|\\.)*)"/ at position s
matchLabelAt(text, s) ==
  /\ startsWithAt(text, Chars("label: \""), s)
  /\ LET e == labelBodyEnd(text, s + 8)
     IN e <= Len(text) /\ text[e] = "\""

\* the characters of label the loop looks at: no backslash, and not the
\* character behind an unescaped backslash
isLive(label, i) == label[i] # "\\" /\ ~isEscaped(label, 1, i)

bracketCount(label, i, j, chars) ==
  Cardinality({k \in i..j : isLive(label, k) /\ label[k] \in chars})

\* the loop of checkLabelBracketBalance from position i on, taken from one
\* quote character that changes inSingleQuote or inDoubleQuote to the next
togglesAt(label, k, inSingleQuote, inDoubleQuote) ==
  /\ isLive(label, k)
  /\ \/ label[k] = QUOTE1 /\ ~inDoubleQuote
     \/ label[k] = "\"" /\ ~inSingleQuote

nextToggle(label, i, inSingleQuote, inDoubleQuote) ==
  IF \E k \in i..Len(label) : togglesAt(label, k, inSingleQuote, inDoubleQuote)
  THEN CHOOSE k \in i..Len(label) :
         /\ togglesAt(label, k, inSingleQuote, inDoubleQuote)
         /\ \A j \in i..(k - 1) : ~togglesAt(label, j, inSingleQuote, inDoubleQuote)
  ELSE 0

RECURSIVE balanceFrom(_, _, _, _, _, _)
balanceFrom(label, i, inSingleQuote, inDoubleQuote, openCount, closeCount) ==
  LET toggle == nextToggle(label, i, inSingleQuote, inDoubleQuote)
      n == IF toggle = 0 THEN Len(label) + 1 ELSE toggle
      counted == ~inSingleQuote /\ ~inDoubleQuote
      opens == IF counted THEN bracketCount(label, i, n - 1, {"(", "[", "{"}) ELSE 0
      closes == IF counted THEN bracketCount(label, i, n - 1, {")", "]", "}"}) ELSE 0
  IN IF toggle = 0 THEN openCount + opens = closeCount + closes
     ELSE IF label[n] = QUOTE1
     THEN balanceFrom(label, n + 1, ~inSingleQuote, inDoubleQuote,
                      openCount + opens, closeCount + closes)
     ELSE balanceFrom(label, n + 1, inSingleQuote, ~inDoubleQuote,
                      openCount + opens, closeCount + closes)

checkLabelBracketBalance(label) == balanceFrom(label, 1, FALSE, FALSE, 0, 0)

\* the loop over convertedChart.match(/label: "((?:[^"\\]|\\.)*)"/g) from
\* position p on: TRUE when no label makes preprocessChart return early
searchLabel(convertedChart, p) ==
  LET hits == {t \in p..Len(convertedChart) : matchLabelAt(convertedChart, t)}
  IN IF hits = {} THEN 0 ELSE MinOf(hits)

RECURSIVE labelsBalancedFrom(_, _)
labelsBalancedFrom(convertedChart, p) ==
  LET s == searchLabel(convertedChart, p)
  IN IF s = 0 THEN TRUE
     ELSE LET e == labelBodyEnd(convertedChart, s + 8)
              label == Sub(convertedChart, s + 8, e - 1)
          IN /\ includes(label, SHAPE_TOKEN) \/ checkLabelBracketBalance(label)
             /\ labelsBalancedFrom(convertedChart, e + 1)

\* the validation of the conversion and the two return statements behind it
\* a variant of the validation that hands back the conversion without the
\* white space around it
validateTrimmed(escapedChart, converted) == trim(converted)

validateConversion(escapedChart, converted) ==
  IF includes(converted, SHAPE_TOKEN) /\ ~labelsBalancedFrom(converted, 1)
  THEN escapedChart
  ELSE converted

preprocessChartV1(chart) ==
  LET escapedChart == IF hasEscapedBracket(chart) THEN handleEscapedCharacters(chart)
                      ELSE chart
  IN validateConversion(escapedChart, toNewSyntaxV1(escapedChart))

\* ------------------------------------------------------------------------
\* Inputs
\* ------------------------------------------------------------------------

\* length of the generated node and edge labels
MaxLabel == 2
\* nesting depth of the generated bracket labels
MaxDepth == 3

\* all character sequences over alphabet of length 1..n
RECURSIVE Words(_, _)
Words(alphabet, n) ==
  IF n = 0 THEN {}
  ELSE LET shorter == Words(alphabet, n - 1)
       IN {<<c>> : c \in alphabet} \cup shorter \cup {Append(w, c) : w \in shorter, c \in alphabet}

Ids == {Chars("A"), Chars("B1"), Chars("node_2")}

\* the legacy delimiter pairs of the dispatching revision with the shape it
\* gives them, in the order of processNodeDefinitions (lines 1533-1555)
DELIMITERS ==
  << <<"(((", ")))", "doublecircle">>, <<"[[", "]]", "subroutine">>, <<"{{", "}}", "hex">>,
     <<"[/", "/]", "lean-r">>, <<"[\\", "\\]", "lean-l">>, <<"[/", "\\]", "trap-t">>,
     <<"[\\", "/]", "trap-b">>, <<"[(", ")]", "cyl">>, <<"([", "])", "stadium">>,
     <<"((", "))", "circle">>, <<"[", "]", "rect">>, <<"{", "}", "diam">>,
     <<">", "]", "odd">>, <<"(", ")", "rounded">> >>

\* labels of letters, digits and spaces, and words of the Mermaid grammar
\* used as label text
PlainLabels ==
  Words({"a", "1", " "}, MaxLabel)
    \cup {Chars("Label Text"), Chars("sequenceDiagram"), Chars("graph"), Chars("my flowchart")}

nodeText(id, open, label, close) == id \o open \o label \o close

NodeCharts ==
  {nodeText(id, Chars(DELIMITERS[k][1]), label, Chars(DELIMITERS[k][2])) :
     id \in Ids, k \in 1..Len(DELIMITERS), label \in PlainLabels}

\* a[a[...[0]...]] with depth pairs of brackets
RECURSIVE nested(_)
nested(depth) == IF depth = 0 THEN Chars("0") ELSE Chars("a[") \o nested(depth - 1) \o Chars("]")

NestedLabels ==
  {nested(d) : d \in 1..MaxDepth}
    \cup {nested(d) \o Chars(" b[1]") : d \in 1..MaxDepth}
    \cup {Chars("x[[y]]"), Chars("[]"), Chars("a[b][c]"), Chars("CMD [\"yarn\", \"start\"]")}

NestedCharts == {nodeText(id, <<"[">>, label, <<"]">>) : id \in Ids, label \in NestedLabels}

CallLabels ==
  {Chars("f()"), Chars("f(x)"), Chars("f(x, y)"), Chars("g(f(x))"), Chars("run f(x) now"),
   Chars("f((x))"), Chars("f([x])"), Chars("f(a[0])"), Chars("init() -> process()")}

CallCharts == {nodeText(id, <<"[">>, label, <<"]">>) : id \in Ids, label \in CallLabels}

EdgeLabels ==
  Words({"a", " ", "\""}, MaxLabel + 1) \cup {Chars("f(x)"), Chars("say \"hi\""), Chars("a[0]")}

edgeText(label) == Chars("A -->|") \o label \o Chars("| B")

EdgeCharts ==
  {edgeText(label) : label \in EdgeLabels}
    \cup {Chars("A -->|") \o l1 \o Chars("| B -->|") \o l2 \o Chars("| C") :
            l1 \in {Chars("go"), Chars("\"go\"")}, l2 \in {Chars(" x "), Chars("\"x\"")}}

\* documents of several lines, escaped delimiters, converted text, text
\* with white space around it, message lines behind a line that holds
\* the word sequenceDiagram without starting with it, and sequence diagrams
\* with participants, notes and blocks
OtherCharts ==
  {Chars("graph TD\n  A[Start] --> B{Decision}\n  B -->|yes| C(Option 1)\n"),
   Chars("flowchart LR\n\nA[x] --> B((y))"),
   Chars("  A[x] --> B[y]  "),
   Chars("\n A(x)\n"),
   Chars("A[\\[text\\]]"),
   Chars("A\\{text\\}"),
   Chars("A[x \\] y] --> B\\{z"),
   Chars("graph TD\nA[\\[a\\]] --> B[(y]"),
   Chars("A[(x]"),
   Chars("A[\"(\" x]"),
   Chars("A@{ shape: rect, label: \"f(x)\" } -->|go| B[y]"),
   Chars("A[x] -->|next| A(y)"),
   Chars("flowchart TD\n  D@{ shape: rect, label: \"f(x).g() [0]\" } -->|go| E[y]\n  E -->|no| F(z)"),
   Chars("B->>sequenceDiagram: a;b"),
   Chars("A[sequenceDiagram]\nA->>+B: x;y"),
   Chars("sequenceDiagram\nA->>+B: x;y\nB-->>-A: ok"),
   Chars("sequenceDiagram\n  participant A as Alice\n\n  Note over A,B: a; b + c - d\n"
         \o "  A->>+B: Hello\n  B-->>-A: Hi\n  alt condition\n  else\n  end"),
   Chars("sequenceDiagram\nalt A->>B: a;b\nend"),
   Chars("graph TD; A[sequenceDiagram] --> B"),
   Chars("\n\n  SEQUENCEdiagram  \nA->>+B: a;b\ngraph TD"),
   Chars("A[x] --> B\nsequenceDiagram\nA->>+B: a;b"),
   Chars("stateDiagram\nA->>+B: x;y\nB-->>-A[ok]"),
   Chars("pie title x;y\nA->>-B: a;b")}

\* lines with a node written with escaped delimiters, id[\[text\]] or
\* id\{text\}, between a head and a tail that hold other escaped delimiters
ESCAPED_OPEN == <<Chars("[\\["), Chars("\\{")>>
ESCAPED_CLOSE == <<Chars("\\]]"), Chars("\\}")>>
EscapedHeads == {<<>>, Chars("x\\] ")}
EscapedTexts == Words({"a", "]", "{"}, MaxLabel)
EscapedIds == {Chars("B1")}
EscapedTails == {<<>>, Chars(" --> B\\[z"), Chars("\\}")}
escapedNode(head, id, form, text, tail) ==
  head \o id \o ESCAPED_OPEN[form] \o text \o ESCAPED_CLOSE[form] \o tail
EscapedCharts ==
  {escapedNode(head, id, form, text, tail) :
     head \in EscapedHeads, id \in EscapedIds, form \in {1, 2},
     text \in EscapedTexts, tail \in EscapedTails}
    \cup {Chars("graph TD\n\nflowchart\\[x\nA\\[x\\] --> B\\\\{y\\}")}

\* labels with double quotes and with an address, in each of the shapes
QuotedLabels == {Chars("say \"hi\""), Chars(" \"x\" "), Chars("see http://a.b"), Chars("a: b")}

QuotedCharts ==
  {nodeText(Chars("A"), Chars(DELIMITERS[k][1]), labelText, Chars(DELIMITERS[k][2])) :
     k \in 1..Len(DELIMITERS), labelText \in QuotedLabels}

\* lines with two legacy nodes: identifiers that differ, one that ends with
\* the other, and the same identifier twice
PairIds == {Chars("A"), Chars("BA")}
PAIR_SHAPES == << <<"[", "]", "rect">>, <<"{", "}", "diam">>, <<"(", ")", "rounded">> >>
pairText(id1, d1, id2, d2) ==
  nodeText(id1, Chars(d1[1]), Chars("x"), Chars(d1[2])) \o Chars(" --> ")
    \o nodeText(id2, Chars(d2[1]), Chars("y"), Chars(d2[2]))
PairCharts ==
  {pairText(id1, PAIR_SHAPES[k1], id2, PAIR_SHAPES[k2]) :
     id1 \in PairIds, id2 \in PairIds, k1 \in 1..3, k2 \in 1..3}
    \cup {Chars("A[First] --> B(Second) --> C((Third))")}

\* edge labels that read like a node: name(arg), name[arg], name{arg}
ShapedEdgeLabels ==
  {Chars("f(x)"), Chars("a[0]"), Chars(" run{1} "), Chars("call f(x) now"), Chars("go on")}
ShapedEdgeCharts == {edgeText(labelText) : labelText \in ShapedEdgeLabels}

Charts ==
  NodeCharts \cup NestedCharts \cup CallCharts \cup EdgeCharts \cup OtherCharts
    \cup EscapedCharts \cup QuotedCharts \cup PairCharts \cup ShapedEdgeCharts

\* ------------------------------------------------------------------------
\* preprocessChart as a state machine
\* ------------------------------------------------------------------------

VARIABLES
  rev,              \* 1: the depth-scanning revision, 2: the dispatching one
  entry,            \* the function that was called: preprocessChart or toNewSyntax
  chart,            \* the argument of preprocessChart
  pc,               \* the statement the call has reached
  processedChart,   \* let processedChart
  diagramType,      \* const diagramType of toNewSyntax
  lines,            \* const lines of toNewSyntax
  i,                \* position in lines of the line the loop is at
  processedLine,    \* let processedLine of the loop body
  out,              \* const result: string[] of the converter loops
  convertedChart,   \* const convertedChart
  returned,         \* the value preprocessChart returns
  second,           \* toNewSyntax applied to convertedChart
  doc,              \* the messages a sequence document was written from
  style,            \* the way doc was written down
  result,           \* const result = [...lines] of normalizeSequenceActivations
  activationStacks, \* const activationStacks
  label,            \* the argument of checkLabelBracketBalance
  escaped,          \* let escaped
  inSingleQuote,    \* let inSingleQuote
  inDoubleQuote,    \* let inDoubleQuote
  openCount,        \* let openCount
  closeCount,       \* let closeCount
  balanced,         \* the value checkLabelBracketBalance returns
  regex,            \* the pattern, shape and delimiters processShapeWithRegex is called with
  nodeDefinitions,  \* the parameter nodeDefinitions of processShapeWithRegex
  lastIndex         \* regex.lastIndex

vars ==
  <<rev, entry, chart, pc, processedChart, diagramType, lines, i, processedLine, out,
    convertedChart, returned, second, doc, style, result, activationStacks,
    label, escaped, inSingleQuote, inDoubleQuote, openCount, closeCount, balanced,
    regex, nodeDefinitions, lastIndex>>

seqVars == <<doc, style, result, activationStacks>>

balanceVars ==
  <<label, escaped, inSingleQuote, inDoubleQuote, openCount, closeCount, balanced>>

scanVars == <<regex, nodeDefinitions, lastIndex>>

\* the state of processShapeWithRegex while it is not running
ScanIdle ==
  /\ regex = [shape |-> <<>>, openChar |-> "", closeChar |-> ""]
  /\ nodeDefinitions = <<>>
  /\ lastIndex = 0

\* the locals of checkLabelBracketBalance while it is not running
BalanceIdle ==
  /\ label = <<>>
  /\ escaped = FALSE
  /\ inSingleQuote = FALSE
  /\ inDoubleQuote = FALSE
  /\ openCount = 0
  /\ closeCount = 0
  /\ balanced = TRUE

Init ==
  /\ rev \in {1, 2}
  /\ entry \in {"preprocessChart", "toNewSyntax"}
  /\ chart \in Charts
  /\ pc = "start"
  /\ processedChart = <<>>
  /\ diagramType = "unknown"
  /\ lines = <<>>
  /\ i = 1
  /\ processedLine = <<>>
  /\ out = <<>>
  /\ convertedChart = <<>>
  /\ returned = <<>>
  /\ second = <<>>
  /\ doc = <<>>
  /\ style = 1
  /\ result = <<>>
  /\ activationStacks = <<>>
  /\ BalanceIdle
  /\ ScanIdle

\* lines 643-646 and 1650-1653
HandleEscaped ==
  /\ pc = "start"
  /\ entry = "preprocessChart"
  /\ processedChart' = IF hasEscapedBracket(chart) THEN handleEscapedCharacters(chart)
                       ELSE chart
  /\ pc' = "toNewSyntax"
  /\ UNCHANGED <<rev, entry, chart, diagramType, lines, i, processedLine, out, convertedChart,
                 returned, second>>
  /\ UNCHANGED seqVars
  /\ UNCHANGED balanceVars
  /\ UNCHANGED scanVars

\* toNewSyntax called with chart by another caller than preprocessChart
CallToNewSyntax ==
  /\ pc = "start"
  /\ entry = "toNewSyntax"
  /\ processedChart' = chart
  /\ pc' = "toNewSyntax"
  /\ UNCHANGED <<rev, entry, chart, diagramType, lines, i, processedLine, out, convertedChart,
                 returned, second>>
  /\ UNCHANGED seqVars
  /\ UNCHANGED balanceVars
  /\ UNCHANGED scanVars

\* the entry of toNewSyntax: lines 529-530, and 1359-1360 with the head of
\* the converter chosen; the depth-scanning revision has flow lines only
ToNewSyntax ==
  /\ pc = "toNewSyntax"
  /\ lines' = split(processedChart)
  /\ diagramType' = IF rev = 2 THEN detectDiagramType(processedChart) ELSE "unknown"
  /\ i' = 1
  /\ out' = <<>>
  /\ pc' = "line"
  /\ UNCHANGED <<rev, entry, chart, processedChart, processedLine, convertedChart, returned, second>>
  /\ UNCHANGED seqVars
  /\ UNCHANGED balanceVars
  /\ UNCHANGED scanVars

\* a variant of the test without the guard for lines that hold a descriptor
skipsBlankLine(line) ==
  IF rev = 1
  THEN trim(line) = <<>> \/ startsWith(trim(line), Chars("graph"))
       \/ startsWith(trim(line), Chars("flowchart"))
  ELSE trim(line) = <<>>

\* the line is pushed as it is: lines 534-537, and 1282-1292
skipsLine(line) ==
  IF rev = 1
  THEN trim(line) = <<>> \/ startsWith(trim(line), Chars("graph"))
       \/ startsWith(trim(line), Chars("flowchart"))
  ELSE trim(line) = <<>> \/ includes(line, SHAPE_TOKEN)

\* case 'sequence' of toNewSyntax: the whole of processSequenceDiagram
ProcessSequenceDiagram ==
  /\ pc = "line"
  /\ diagramType = "sequence"
  /\ i = 1
  /\ out' = processSequenceDiagram(lines)
  /\ i' = Len(lines) + 1
  /\ UNCHANGED <<rev, entry, chart, processedChart, diagramType, lines, processedLine, pc,
                 convertedChart, returned, second>>
  /\ UNCHANGED seqVars
  /\ UNCHANGED balanceVars
  /\ UNCHANGED scanVars

\* the head of the loop body of the flow converter
TakeLine ==
  /\ pc = "line"
  /\ diagramType # "sequence"
  /\ i <= Len(lines)
  /\ IF skipsLine(lines[i])
     THEN /\ out' = Append(out, lines[i])
          /\ i' = i + 1
          /\ UNCHANGED <<processedLine, pc>>
     ELSE /\ processedLine' = lines[i]
          /\ pc' = "edgeLabels"
          /\ UNCHANGED <<out, i>>
  /\ UNCHANGED <<rev, entry, chart, processedChart, diagramType, lines, convertedChart,
                 returned, second>>
  /\ UNCHANGED seqVars
  /\ UNCHANGED balanceVars
  /\ UNCHANGED scanVars

\* lines 542-544 and 1295-1304
QuoteEdgeLabels ==
  /\ pc = "edgeLabels"
  /\ processedLine' = IF rev = 1 THEN quoteEdgeLabelsFromV1(processedLine, 1)
                      ELSE quoteEdgeLabels(processedLine)
  /\ pc' = "nodes"
  /\ UNCHANGED <<rev, entry, chart, processedChart, diagramType, lines, i, out, convertedChart,
                 returned, second>>
  /\ UNCHANGED seqVars
  /\ UNCHANGED balanceVars
  /\ UNCHANGED scanVars

\* lines 547-549 and 1307-1309
ProcessNodeDefinitions ==
  /\ pc = "nodes"
  /\ out' = Append(out, IF rev = 1 THEN processNodeDefinitionsV1(processedLine)
                        ELSE processNodeDefinitions(processedLine))
  /\ i' = i + 1
  /\ pc' = "line"
  /\ UNCHANGED <<rev, entry, chart, processedChart, diagramType, lines, processedLine,
                 convertedChart, returned, second>>
  /\ UNCHANGED seqVars
  /\ UNCHANGED balanceVars
  /\ UNCHANGED scanVars

\* return result.join('\n') of the converter
Join ==
  /\ pc = "line"
  /\ i > Len(lines)
  /\ convertedChart' = join(out)
  /\ pc' = "validate"
  /\ UNCHANGED <<rev, entry, chart, processedChart, diagramType, lines, i, processedLine, out,
                 returned, second>>
  /\ UNCHANGED seqVars
  /\ UNCHANGED balanceVars
  /\ UNCHANGED scanVars

\* lines 652-672, and 1659-1660
Return ==
  /\ pc = "validate"
  /\ entry = "preprocessChart"
  /\ returned' = IF rev = 1 THEN validateConversion(processedChart, convertedChart)
                 ELSE convertedChart
  /\ pc' = "returned"
  /\ UNCHANGED <<rev, entry, chart, processedChart, diagramType, lines, i, processedLine, out,
                 convertedChart, second>>
  /\ UNCHANGED seqVars
  /\ UNCHANGED balanceVars
  /\ UNCHANGED scanVars

\* the converter applied to its own output
ConvertAgain ==
  /\ pc = "validate"
  /\ entry = "toNewSyntax"
  /\ second' = IF rev = 1 THEN toNewSyntaxV1(convertedChart) ELSE toNewSyntax(convertedChart)
  /\ pc' = "again"
  /\ UNCHANGED <<rev, entry, chart, processedChart, diagramType, lines, i, processedLine, out,
                 convertedChart, returned>>
  /\ UNCHANGED seqVars
  /\ UNCHANGED balanceVars
  /\ UNCHANGED scanVars

\* a variant of the catch block that hands back the text of the pre-pass
catchEscaped(chart_, processedChart_) == processedChart_

\* the value of the catch block: return chart, lines 673-676 and 1661-1664
catchReturn(chart_, processedChart_) == chart_

\* a statement of mermaidConverter.toNewSyntax raises (the engine gives up
\* on a pattern or a string) and the catch block of preprocessChart ends
\* the call
Catch ==
  /\ entry = "preprocessChart"
  /\ pc \in {"toNewSyntax", "line", "edgeLabels", "nodes"}
  /\ returned' = catchReturn(chart, processedChart)
  /\ pc' = "caught"
  /\ UNCHANGED <<rev, entry, chart, processedChart, diagramType, lines, i, processedLine, out,
                 convertedChart, second>>
  /\ UNCHANGED seqVars
  /\ UNCHANGED balanceVars
  /\ UNCHANGED scanVars

Next ==
  \/ HandleEscaped
  \/ CallToNewSyntax
  \/ ToNewSyntax
  \/ ProcessSequenceDiagram
  \/ TakeLine
  \/ QuoteEdgeLabels
  \/ ProcessNodeDefinitions
  \/ Join
  \/ Return
  \/ ConvertAgain
  \/ Catch

Spec == Init /\ [][Next]_vars

\* the steps agree with the functions they are steps of
StepsAgree ==
  /\ pc \in {"validate", "returned", "again"} =>
       convertedChart = IF rev = 1 THEN toNewSyntaxV1(processedChart)
                        ELSE toNewSyntax(processedChart)
  /\ pc = "returned" =>
       returned = IF rev = 1 THEN preprocessChartV1(chart) ELSE preprocessChart(chart)

\* ------------------------------------------------------------------------
\* Properties of preprocessChart and of the flow converter
\* ------------------------------------------------------------------------

\* The text the properties speak of, written down without the operators of
\* the converter.
RECURSIVE dropSpaces(_)
dropSpaces(s) == IF s # <<>> /\ Head(s) = " " THEN dropSpaces(Tail(s)) ELSE s

Reverse(s) == [k \in 1..Len(s) |-> s[Len(s) + 1 - k]]

Trimmed(s) == Reverse(dropSpaces(Reverse(dropSpaces(s))))

RECURSIVE QuotesEscaped(_)
QuotesEscaped(s) ==
  IF s = <<>> THEN <<>>
  ELSE (IF Head(s) = "\"" THEN <<"\\", "\"">> ELSE <<Head(s)>>) \o QuotesEscaped(Tail(s))

Descriptor(id, shape, labelText) ==
  id \o Chars("@{ shape: ") \o Chars(shape) \o Chars(", label: \"") \o labelText \o Chars("\" }")

\* the first line of x that is not blank, <<>> when all are
FirstNonBlank(x) ==
  LET ls == split(x)
      filled == {j \in 1..Len(ls) : Trimmed(ls[j]) # <<>>}
  IN IF filled = {} THEN <<>> ELSE Trimmed(ls[MinOf(filled)])

\* x is a source of the flow dialect: its first non-blank line is not the
\* header of a sequence diagram
FlowDialect(x) == ~startsWith(FirstNonBlank(x), Chars("sequenceDiagram"))

\* C1: preprocessChart never raises: the loop reads no line that is not
\* there, and the string the call returns is the converted text, the text
\* the escape pre-pass produced, or the source it was given.
C1_ReturnsConvertedOrFallback ==
  /\ pc \in {"returned", "caught"} => returned \in {convertedChart, processedChart, chart}
  /\ pc = "line" => i \in 1..(Len(lines) + 1)
  /\ pc \in {"edgeLabels", "nodes"} => i \in 1..Len(lines)

\* the validation rejected a conversion of a source the pre-pass had
\* rewritten: the pre-pass text is returned
C1_Witness ==
  /\ pc = "returned"
  /\ returned = processedChart
  /\ returned # convertedChart
  /\ returned # chart

\* C2: flow conversion is idempotent: for every source x of the flow
\* dialect, toNewSyntax(toNewSyntax(x)) = toNewSyntax(x).
C2_FlowIdempotent ==
  pc = "again" /\ rev = 2 /\ FlowDialect(chart) => second = convertedChart

\* the eight legacy delimiter pairs with the shape each is to give
LEGACY_PAIRS ==
  {<<"[", "]", "rect">>, <<"(", ")", "rounded">>, <<"((", "))", "circle">>,
   <<"[[", "]]", "subroutine">>, <<"{{", "}}", "hex">>, <<"[/", "/]", "lean-r">>,
   <<"[\\", "\\]", "lean-l">>, <<"{", "}", "diam">>}

\* C3: for every identifier id and every label L of letters, digits and
\* spaces, toNewSyntax of the line id open L close is
\* id@{ shape: S, label: "L trimmed" }, for each of the eight legacy pairs.
C3_ShapeCoverage ==
  pc = "validate" /\ entry = "toNewSyntax" /\ rev = 2 =>
    \A id \in Ids, d \in LEGACY_PAIRS, L \in PlainLabels :
      chart = nodeText(id, Chars(d[1]), L, Chars(d[2])) =>
        convertedChart = Descriptor(id, d[3], Trimmed(L))

\* C4: a rectangle node id[L] whose label holds balanced nested square
\* brackets of any depth becomes the one descriptor
\* id@{ shape: rect, label: "L" } with the whole text between the outermost
\* brackets as its label, in both revisions of the converter.
C4_NestedBrackets ==
  pc = "validate" /\ entry = "toNewSyntax" =>
    \A id \in Ids, L \in NestedLabels :
      chart = nodeText(id, <<"[">>, L, <<"]">>) =>
        convertedChart = Descriptor(id, "rect", QuotesEscaped(Trimmed(L)))

\* the names called in CallLabels
CALL_NAMES == {Chars("f"), Chars("g"), Chars("init"), Chars("process")}

\* C5: for a rectangle node id[L] whose label holds a call name(args), the
\* output holds the rect descriptor of id with the call text in its label
\* and no descriptor name@{ shape: rounded ... }.
C5_CallStaysInLabel ==
  pc = "validate" /\ entry = "toNewSyntax" =>
    \A id \in Ids, L \in CallLabels :
      chart = nodeText(id, <<"[">>, L, <<"]">>) =>
        /\ startsWith(convertedChart, id \o Chars("@{ shape: rect, label: \""))
        /\ includes(convertedChart, L)
        /\ \A name \in CALL_NAMES :
             ~includes(convertedChart, name \o Chars("@{ shape: rounded"))

\* |L| as the edge label step is to leave it
EdgeLabelQuoted(L) ==
  LET t == Trimmed(L)
  IN IF Len(t) >= 1 /\ t[1] = "\"" /\ t[Len(t)] = "\""
     THEN <<"|">> \o L \o <<"|">>
     ELSE <<"|", "\"">> \o QuotesEscaped(t) \o <<"\"", "|">>

MaxLines == 4

\* the messages documents are made of: kind is "act" (arrow followed by +),
\* "deact" (arrow followed by -) or "plain"
EVENTS ==
  {[kind |-> "act", from |-> "A", to |-> "B"],
   [kind |-> "act", from |-> "B", to |-> "C"],
   [kind |-> "deact", from |-> "C", to |-> "B"],
   [kind |-> "deact", from |-> "B", to |-> "A"],
   [kind |-> "plain", from |-> "A", to |-> "B"]}

RECURSIVE EventSeqs(_)
EventSeqs(n) ==
  IF n = 0 THEN {}
  ELSE LET shorter == EventSeqs(n - 1)
       IN {<<e>> : e \in EVENTS} \cup shorter \cup {Append(d, e) : d \in shorter, e \in EVENTS}

Docs == EventSeqs(MaxLines)

\* the ways a document is written down: the arrow of each kind of message,
\* the white space in front of the line and around the arrow, and the text
\* of the message
STYLES ==
  << [act |-> "->>",  deact |-> "-->>", plain |-> "->>",  indent |-> "",   gap |-> "",  body |-> "a;b"],
     [act |-> "-->>", deact |-> "->>",  plain |-> "-->>", indent |-> "",   gap |-> "",  body |-> "x; y;"],
     [act |-> "->>",  deact |-> "-->>", plain |-> "->",   indent |-> "  ", gap |-> " ", body |-> "ok"],
     [act |-> "-->>", deact |-> "-->>", plain |-> "-->",  indent |-> "",   gap |-> "",  body |-> ";"],
     [act |-> "->>",  deact |-> "->>",  plain |-> "-x",   indent |-> "  ", gap |-> " ", body |-> "a;b"] >>

arrowOf(e, st) ==
  CASE e.kind = "act" -> Chars(st.act)
    [] e.kind = "deact" -> Chars(st.deact)
    [] OTHER -> Chars(st.plain)

markerOf(e) ==
  CASE e.kind = "act" -> <<"+">>
    [] e.kind = "deact" -> <<"-">>
    [] OTHER -> <<>>

\* the line of message e up to its arrow and marker
messageHead(e, st) ==
  Chars(st.indent) \o Chars(e.from) \o Chars(st.gap) \o arrowOf(e, st) \o markerOf(e)

messageText(e, st) ==
  messageHead(e, st) \o Chars(st.gap) \o Chars(e.to) \o Chars(st.gap) \o Chars(": ")
    \o Chars(st.body)

RECURSIVE documentLines(_, _, _)
documentLines(d, st, k) ==
  IF k > Len(d) THEN <<>>
  ELSE <<messageText(d[k], st)>> \o documentLines(d, st, k + 1)

documentText(d, st) == join(<<Chars("sequenceDiagram")>> \o documentLines(d, st, 1))

InitSeq ==
  /\ doc \in Docs
  /\ style \in 1..Len(STYLES)
  /\ chart = documentText(doc, STYLES[style])
  /\ rev = 2
  /\ entry = "toNewSyntax"
  /\ pc = "start"
  /\ processedChart = chart
  /\ diagramType = "unknown"
  /\ lines = <<>>
  /\ i = 1
  /\ processedLine = <<>>
  /\ out = <<>>
  /\ convertedChart = <<>>
  /\ returned = <<>>
  /\ second = <<>>
  /\ result = <<>>
  /\ activationStacks = <<>>
  /\ BalanceIdle
  /\ ScanIdle

flowVars == <<rev, entry, chart, processedChart, processedLine, returned, second, doc, style>>

\* lines 1359-1364 and the head of normalizeSequenceActivations, 1193-1196
SeqToNewSyntax ==
  /\ pc = "start"
  /\ lines' = split(processedChart)
  /\ diagramType' = detectDiagramType(processedChart)
  /\ result' = lines'
  /\ activationStacks' = <<>>
  /\ i' = 1
  /\ pc' = "first"
  /\ UNCHANGED <<out, convertedChart>>
  /\ UNCHANGED flowVars
  /\ UNCHANGED balanceVars
  /\ UNCHANGED scanVars

\* one iteration of the loop of lines 1202-1231
FirstPassLine ==
  /\ pc = "first"
  /\ diagramType = "sequence"
  /\ i <= Len(lines)
  /\ LET st == firstPassStep([result |-> result, activationStacks |-> activationStacks], i)
     IN /\ result' = st.result
        /\ activationStacks' = st.activationStacks
  /\ i' = i + 1
  /\ UNCHANGED <<pc, diagramType, lines, out, convertedChart>>
  /\ UNCHANGED flowVars
  /\ UNCHANGED balanceVars
  /\ UNCHANGED scanVars

\* lines 1234-1244: the stacks are emptied into result, which is returned
SecondPass ==
  /\ pc = "first"
  /\ i > Len(lines)
  /\ result' = secondPass([result |-> result, activationStacks |-> activationStacks])
  /\ i' = 1
  /\ out' = <<>>
  /\ pc' = "messages"
  /\ UNCHANGED <<diagramType, lines, activationStacks, convertedChart>>
  /\ UNCHANGED flowVars
  /\ UNCHANGED balanceVars
  /\ UNCHANGED scanVars

\* one iteration of the loop of lines 1255-1268
ProcessSequenceLine ==
  /\ pc = "messages"
  /\ i <= Len(result)
  /\ out' = Append(out, processSequenceLine(result[i]))
  /\ i' = i + 1
  /\ UNCHANGED <<pc, diagramType, lines, result, activationStacks, convertedChart>>
  /\ UNCHANGED flowVars
  /\ UNCHANGED balanceVars
  /\ UNCHANGED scanVars

\* return result.join('\n') of toNewSyntax
SeqJoin ==
  /\ pc = "messages"
  /\ i > Len(result)
  /\ convertedChart' = join(out)
  /\ pc' = "done"
  /\ UNCHANGED <<diagramType, lines, i, out, result, activationStacks>>
  /\ UNCHANGED flowVars
  /\ UNCHANGED balanceVars
  /\ UNCHANGED scanVars

NextSeq ==
  \/ SeqToNewSyntax
  \/ FirstPassLine
  \/ SecondPass
  \/ ProcessSequenceLine
  \/ SeqJoin

SpecSeq == InitSeq /\ [][NextSeq]_vars

\* the steps agree with the function they are steps of
SeqStepsAgree == pc = "done" => convertedChart = toNewSyntax(chart)

\* ------------------------------------------------------------------------
\* Properties of the sequence converter
\* ------------------------------------------------------------------------

PARTICIPANTS == {"A", "B", "C"}

\* The activations of participant P that are pending after the first k
\* messages of d, oldest first: an activation of P is pending until a later
\* deactivation sent by P consumes it, the latest one first.
RECURSIVE PendingActs(_, _, _)
PendingActs(d, k, P) ==
  IF k = 0 THEN <<>>
  ELSE LET before == PendingActs(d, k - 1, P)
       IN IF d[k].kind = "act" /\ d[k].to = P THEN Append(before, k)
          ELSE IF d[k].kind = "deact" /\ d[k].from = P /\ before # <<>>
          THEN SubSeq(before, 1, Len(before) - 1)
          ELSE before

RECURSIVE NoSpaces(_)
NoSpaces(s) ==
  IF s = <<>> THEN <<>>
  ELSE (IF Head(s) = " " THEN <<>> ELSE <<Head(s)>>) \o NoSpaces(Tail(s))

\* message e without its marker, white space left aside
unmarkedText(e, st) ==
  NoSpaces(Chars(e.from) \o arrowOf(e, st) \o Chars(e.to) \o Chars(":") \o Chars(st.body))

\* line k + 1 of the document holds message k with its marker
keepsMarker(text, k) == text[k + 1] = messageText(doc[k], STYLES[style])

\* line k + 1 of the document holds message k without its marker
lostMarker(text, k) == NoSpaces(text[k + 1]) = unmarkedText(doc[k], STYLES[style])

\* the messages the left-to-right pass has gone through
scanned == IF pc = "first" THEN (IF i >= 2 THEN i - 2 ELSE 0) ELSE Len(doc)

\* C7: a deactivation whose sender has no pending activation at its line
\* (never activated, or every activation consumed already) loses its -
\* marker; a deactivation that finds a pending activation keeps its marker
\* and consumes exactly one pending activation.
C7_DeactivationStripped ==
  pc \in {"first", "messages", "done"} =>
    /\ \A k \in 1..scanned :
         doc[k].kind = "deact" =>
           IF PendingActs(doc, k - 1, doc[k].from) = <<>>
           THEN lostMarker(result, k)
           ELSE keepsMarker(result, k)
    /\ \A P \in PARTICIPANTS :
         Len(stackOf(activationStacks, Chars(P))) = Len(PendingActs(doc, scanned, P))

\* the first of two deactivations of one activation kept its marker, the
\* second lost it
C7_Witness ==
  /\ pc = "messages"
  /\ \E j \in 1..Len(doc), k \in 1..Len(doc) :
       /\ j < k
       /\ doc[j].kind = "deact" /\ doc[k] = doc[j]
       /\ PendingActs(doc, j - 1, doc[j].from) # <<>>
       /\ PendingActs(doc, k - 1, doc[k].from) = <<>>
       /\ keepsMarker(result, j)
       /\ lostMarker(result, k) /\ ~keepsMarker(result, k)

\* C8: an activation keeps its + marker throughout the left-to-right pass;
\* it loses it afterwards, and exactly when it is still pending once all
\* lines have been processed.
C8_ActivationStrippedLast ==
  /\ pc = "first" =>
       \A k \in 1..Len(doc) : doc[k].kind = "act" => keepsMarker(result, k)
  /\ pc \in {"messages", "done"} =>
       \A k \in 1..Len(doc) :
         doc[k].kind = "act" =>
           IF \E n \in 1..Len(PendingActs(doc, Len(doc), doc[k].to)) :
                PendingActs(doc, Len(doc), doc[k].to)[n] = k
           THEN lostMarker(result, k)
           ELSE keepsMarker(result, k)

\* of two activations of one receiver the earlier is still pending at the
\* end and has lost its marker, the later was consumed and kept it
C8_Witness ==
  /\ pc = "messages"
  /\ \E j \in 1..Len(doc), k \in 1..Len(doc) :
       /\ j < k
       /\ doc[j].kind = "act" /\ doc[k] = doc[j]
       /\ lostMarker(result, j) /\ ~keepsMarker(result, j)
       /\ keepsMarker(result, k)

\* every deactivation of d finds a pending activation of its sender and no
\* activation is pending at the end
FullyPaired(d) ==
  /\ \A k \in 1..Len(d) :
       d[k].kind = "deact" => PendingActs(d, k - 1, d[k].from) # <<>>
  /\ \A P \in PARTICIPANTS : PendingActs(d, Len(d), P) = <<>>

\* C9: when every deactivation is preceded by an unconsumed activation of
\* its sender and every activation is consumed by a later deactivation,
\* toNewSyntax removes no activation or deactivation marker.
C9_PairedMarkersKept ==
  pc = "done" /\ FullyPaired(doc) =>
    \A k \in 1..Len(doc) :
      startsWith(split(convertedChart)[k + 1], messageHead(doc[k], STYLES[style]))

\* A activates B, B activates C, C deactivates, B deactivates
C9_Witness ==
  /\ pc = "done"
  /\ FullyPaired(doc)
  /\ doc = <<[kind |-> "act", from |-> "A", to |-> "B"],
             [kind |-> "act", from |-> "B", to |-> "C"],
             [kind |-> "deact", from |-> "C", to |-> "B"],
             [kind |-> "deact", from |-> "B", to |-> "A"]>>
  /\ \A k \in 1..4 : includes(split(convertedChart)[k + 1], arrowOf(doc[k], STYLES[style]) \o markerOf(doc[k]))

RECURSIVE SemicolonsEscaped(_)
SemicolonsEscaped(s) ==
  IF s = <<>> THEN <<>>
  ELSE (IF Head(s) = ";" THEN Chars("#59;") ELSE <<Head(s)>>) \o SemicolonsEscaped(Tail(s))

\* C10: in a sequence document every semicolon of the body of every message
\* line is replaced by #59;, for each arrow form and whether or not the
\* arrow carries a marker that survives the normalization.
C10_SemicolonsEscaped ==
  pc = "done" =>
    \A k \in 1..Len(doc) :
      endsWith(split(convertedChart)[k + 1],
               Chars(": ") \o SemicolonsEscaped(Chars(STYLES[style].body)))

\* ------------------------------------------------------------------------
\* Claims on the lines a converter leaves alone, on failures and on the
\* choice of the dialect
\* ------------------------------------------------------------------------

\* the words that open a line of a sequence diagram that is no message
BLOCK_WORDS == {"sequenceDiagram", "participant", "Note", "alt", "else", "end"}

\* the word characters s starts with
RECURSIVE LeadingWord(_)
LeadingWord(s) ==
  IF s # <<>> /\ Head(s) \in WordChars THEN <<Head(s)>> \o LeadingWord(Tail(s)) ELSE <<>>

\* line is blank, or the header, a participant declaration, a note or a
\* block keyword line
NonMessageLine(line) ==
  \/ Trimmed(line) = <<>>
  \/ \E w \in BLOCK_WORDS : LeadingWord(Trimmed(line)) = Chars(w)

\* C11: when toNewSyntax has converted a sequence diagram, every line of the
\* source that is no message (blank, header, participant, note, alt, else,
\* end) stands unchanged at its place in the output.
C11_NonMessagesUnchanged ==
  pc = "validate" /\ rev = 2 /\ diagramType = "sequence"
    => \A k \in 1..Len(lines) : NonMessageLine(lines[k]) => out[k] = lines[k]

\* some text between label: " and its closing quote in text, from position
\* p on, has unequal counts of opening and closing brackets
RECURSIVE SomeLabelFails(_, _)
SomeLabelFails(text, p) ==
  LET s == searchLabel(text, p)
  IN IF s = 0 THEN FALSE
     ELSE \/ ~checkLabelBracketBalance(Sub(text, s + 8, labelBodyEnd(text, s + 8) - 1))
          \/ SomeLabelFails(text, labelBodyEnd(text, s + 8) + 1)

\* C12: in each revision of preprocessChart, when a descriptor label of
\* the converted text fails checkLabelBracketBalance the call returns the
\* text of the escape pre-pass for the whole document, not the conversion.
C12_UnbalancedFallsBack ==
  pc = "returned" /\ SomeLabelFails(convertedChart, 1) => returned = processedChart

\* C13: when a statement of the conversion raises, preprocessChart catches
\* it and returns the source text exactly as it was passed in.
C13_CatchReturnsSource ==
  pc = "caught" => returned = chart

\* the conversion of a source the pre-pass had rewritten failed after some
\* line was already converted
C13_Witness ==
  /\ pc = "caught"
  /\ processedChart # chart
  /\ out # <<>>
  /\ returned = chart

\* C14: when the converter fails after the escape pre-pass has run,
\* preprocessChart returns the text of the pre-pass unchanged.
C14_CatchReturnsEscaped ==
  pc = "caught" => returned = processedChart

\* the classification of toNewSyntax has been made
Classified ==
  rev = 2 /\ pc \in {"line", "edgeLabels", "nodes", "validate", "returned", "again"}

HeaderLine(x) == toLowerCase(FirstNonBlank(x))

\* C15: a source is classified Sequence only when its first non-blank line
\* starts with the keyword sequenceDiagram, and a source whose first
\* non-blank line starts with graph or flowchart is classified Flow
\* whatever else the line holds.
C15_SequenceOnlyByHeader ==
  Classified =>
    /\ diagramType = "sequence"
         => startsWith(HeaderLine(processedChart), Chars("sequencediagram"))
    /\ \/ startsWith(HeaderLine(processedChart), Chars("graph"))
       \/ startsWith(HeaderLine(processedChart), Chars("flowchart"))
       => diagramType \in {"graph", "flowchart"}

\* C16: the dialect is that of the first non-blank line standing alone,
\* without the blank lines before it, the white space around it and the
\* case of its letters; what the later lines hold has no part in it, and it
\* stays as it is while the lines are converted.
C16_DecidedByFirstLine ==
  Classified => diagramType = detectDiagramType(HeaderLine(processedChart))

\* a source that starts with blank lines and whose keyword is indented and
\* written in capitals is a sequence diagram although a later line says graph
C16_Witness ==
  /\ Classified
  /\ diagramType = "sequence"
  /\ pc = "validate"
  /\ split(processedChart)[1] = <<>>
  /\ ~includes(processedChart, Chars("sequencediagram"))
  /\ \E k \in 1..Len(lines) : lines[k] = Chars("graph TD")

\* a flow source with the keyword of the other dialect on a later line
C16_WitnessFlow ==
  /\ Classified
  /\ diagramType = "unknown"
  /\ pc = "validate"
  /\ \E k \in 2..Len(lines) : lines[k] = Chars("sequenceDiagram")

\* the number of places of s that hold one of chars
CountOf(s, chars) == Cardinality({k \in 1..Len(s) : s[k] \in chars})

FLOW_HEADER == Chars("graph TD\n")

\* C17: a source that is not classified Sequence, with an unknown header
\* or with none, is converted exactly as the same lines are under a flow
\* header, and none of its lines gets the rewriting of the sequence
\* converter: no semicolon is escaped and no activation marker is taken out.
C17_NotSequenceIsFlow ==
  /\ rev = 2
  /\ pc = "validate"
  /\ ~includes(HeaderLine(processedChart), Chars("sequencediagram"))
  => /\ toNewSyntax(FLOW_HEADER \o processedChart) = FLOW_HEADER \o convertedChart
     /\ Len(out) = Len(lines)
     /\ \A k \in 1..Len(lines) :
          /\ CountOf(out[k], {";"}) = CountOf(lines[k], {";"})
          /\ CountOf(out[k], {"+"}) = CountOf(lines[k], {"+"})
          /\ CountOf(out[k], {"-"}) >= CountOf(lines[k], {"-"})
          /\ ~includes(lines[k], Chars("#59;")) => ~includes(out[k], Chars("#59;"))

\* a source with a header that is not known, with a message line the
\* sequence converter would rewrite and a node the flow converter rewrites
C17_Witness ==
  /\ rev = 2
  /\ pc = "validate"
  /\ diagramType = "unknown"
  /\ lines # <<>> /\ lines[1] = Chars("stateDiagram")
  /\ \E k \in 1..Len(lines) : processSequenceLine(lines[k]) # lines[k] /\ out[k] = lines[k]
  /\ \E k \in 1..Len(lines) : out[k] # lines[k]

\* ------------------------------------------------------------------------
\* checkLabelBracketBalance, one character at a time (lines 601-636 and
\* 1600-1642, the same text)
\* ------------------------------------------------------------------------

\* length of the generated labels of the balance check
MaxBalance == 4

BalanceLabels ==
  {<<>>} \cup Words({"(", "}", "'", "\"", "\\", "a"}, MaxBalance)
    \cup {Chars("Simple text"), Chars("(balanced)"), Chars("[balanced]"), Chars("{balanced}"),
          Chars("(unbalanced"), Chars("unbalanced]"), Chars("{unbalanced"),
          Chars("\"[inside quotes]\""), Chars("'[inside quotes]'"),
          Chars("CMD [\"yarn\", \"start\"]"), Chars("\\[escaped\\]"), Chars("\\{escaped\\}"),
          Chars("\"He said 'hello'\""), Chars("'She said \"goodbye\"'"),
          Chars("'a\\'(' [x]\"'))\""), Chars("\"]'\" ')' {(])")}

\* a variant of the loop body in which a quote of one kind also opens and
\* closes while a span of the other kind is open
checkCharAnyQuote(st, char) ==
  IF st.escaped THEN [st EXCEPT !.escaped = FALSE]
  ELSE IF char = "\\" THEN [st EXCEPT !.escaped = TRUE]
  ELSE IF char = QUOTE1 THEN [st EXCEPT !.inSingleQuote = ~st.inSingleQuote]
  ELSE IF char = "\"" THEN [st EXCEPT !.inDoubleQuote = ~st.inDoubleQuote]
  ELSE IF ~st.inSingleQuote /\ ~st.inDoubleQuote /\ char \in {"(", "[", "{"}
  THEN [st EXCEPT !.openCount = st.openCount + 1]
  ELSE IF ~st.inSingleQuote /\ ~st.inDoubleQuote /\ char \in {")", "]", "}"}
  THEN [st EXCEPT !.closeCount = st.closeCount + 1]
  ELSE st

\* the body of the for loop on the character char, lines 1608-1638
checkChar(st, char) ==
  IF st.escaped THEN [st EXCEPT !.escaped = FALSE]
  ELSE IF char = "\\" THEN [st EXCEPT !.escaped = TRUE]
  ELSE IF char = QUOTE1 /\ ~st.inDoubleQuote
  THEN [st EXCEPT !.inSingleQuote = ~st.inSingleQuote]
  ELSE IF char = "\"" /\ ~st.inSingleQuote
  THEN [st EXCEPT !.inDoubleQuote = ~st.inDoubleQuote]
  ELSE IF ~st.inSingleQuote /\ ~st.inDoubleQuote /\ char \in {"(", "[", "{"}
  THEN [st EXCEPT !.openCount = st.openCount + 1]
  ELSE IF ~st.inSingleQuote /\ ~st.inDoubleQuote /\ char \in {")", "]", "}"}
  THEN [st EXCEPT !.closeCount = st.closeCount + 1]
  ELSE st

InitBalance ==
  /\ label \in BalanceLabels
  /\ escaped = FALSE
  /\ inSingleQuote = FALSE
  /\ inDoubleQuote = FALSE
  /\ openCount = 0
  /\ closeCount = 0
  /\ balanced = TRUE
  /\ ScanIdle
  /\ i = 1
  /\ pc = "loop"
  /\ rev = 2
  /\ entry = "checkLabelBracketBalance"
  /\ chart = <<>>
  /\ processedChart = <<>>
  /\ diagramType = "unknown"
  /\ lines = <<>>
  /\ processedLine = <<>>
  /\ out = <<>>
  /\ convertedChart = <<>>
  /\ returned = <<>>
  /\ second = <<>>
  /\ doc = <<>>
  /\ style = 1
  /\ result = <<>>
  /\ activationStacks = <<>>

converterVars ==
  <<rev, entry, chart, processedChart, diagramType, lines, processedLine, out, convertedChart,
    returned, second>>

\* one iteration of the for loop
CheckChar ==
  /\ pc = "loop"
  /\ i <= Len(label)
  /\ LET st == checkChar([escaped |-> escaped, inSingleQuote |-> inSingleQuote,
                          inDoubleQuote |-> inDoubleQuote, openCount |-> openCount,
                          closeCount |-> closeCount], label[i])
     IN /\ escaped' = st.escaped
        /\ inSingleQuote' = st.inSingleQuote
        /\ inDoubleQuote' = st.inDoubleQuote
        /\ openCount' = st.openCount
        /\ closeCount' = st.closeCount
  /\ i' = i + 1
  /\ UNCHANGED <<label, balanced, pc>>
  /\ UNCHANGED converterVars
  /\ UNCHANGED scanVars
  /\ UNCHANGED seqVars

\* return openCount === closeCount
ReturnBalance ==
  /\ pc = "loop"
  /\ i > Len(label)
  /\ balanced' = (openCount = closeCount)
  /\ pc' = "balance"
  /\ UNCHANGED <<label, escaped, inSingleQuote, inDoubleQuote, openCount, closeCount, i>>
  /\ UNCHANGED converterVars
  /\ UNCHANGED scanVars
  /\ UNCHANGED seqVars

NextBalance ==
  \/ CheckChar
  \/ ReturnBalance

SpecBalance == InitBalance /\ [][NextBalance]_vars

\* the loop and the operator the validation of preprocessChart uses agree
BalanceAgrees == pc = "balance" => balanced = checkLabelBracketBalance(label)

\* the number of backslashes in a row that end at position k of s
RECURSIVE SlashRun(_, _)
SlashRun(s, k) == IF k = 0 \/ s[k] # "\\" THEN 0 ELSE 1 + SlashRun(s, k - 1)

\* position k comes right after a backslash that escapes; the backslashes
\* of a run escape in turn, the first one, the third one and so on
AfterEscape(s, k) == SlashRun(s, k - 1) % 2 = 1

\* the span that is open before position k of s: "'" or "\"" for a span in
\* single or double quotes, "" outside every span
RECURSIVE SpanBefore(_, _)
SpanBefore(s, k) ==
  IF k = 1 THEN ""
  ELSE IF AfterEscape(s, k - 1) \/ s[k - 1] \notin {QUOTE1, "\""} THEN SpanBefore(s, k - 1)
  ELSE IF SpanBefore(s, k - 1) = "" THEN s[k - 1]
  ELSE IF SpanBefore(s, k - 1) = s[k - 1] THEN ""
  ELSE SpanBefore(s, k - 1)

\* the characters of s that count: outside every span in quotes and not
\* right after an escaping backslash
Counted(s) == {k \in 1..Len(s) : ~AfterEscape(s, k) /\ SpanBefore(s, k) = ""}

\* C18: checkLabelBracketBalance(label) is true exactly when, among the
\* counted characters of label, there are as many of ( [ { as of ) ] };
\* the empty label is balanced.
C18_BalanceCountsLiveBrackets ==
  pc = "balance" =>
    /\ balanced = (Cardinality({k \in Counted(label) : label[k] \in {"(", "[", "{"}})
                   = Cardinality({k \in Counted(label) : label[k] \in {")", "]", "}"}}))
    /\ label = <<>> => balanced

\* a label whose brackets are unequal in number as characters and equal as
\* counted characters, with a quote of the other kind inside a span and an
\* escaped quote inside a span
C18_Witness ==
  /\ pc = "balance"
  /\ balanced
  /\ label = Chars("'a\\'(' [x]\"'))\"")

\* a bracket behind an escaped backslash is counted
C18_WitnessCounted ==
  /\ pc = "balance"
  /\ ~balanced
  /\ label = <<"\\", "\\", "(">>

\* s with every \[ \] \{ \} replaced by the delimiter alone
RECURSIVE Unescaped(_)
Unescaped(s) ==
  IF s = <<>> THEN <<>>
  ELSE IF Len(s) >= 2 /\ s[1] = "\\" /\ s[2] \in {"[", "]", "{", "}"}
  THEN <<s[2]>> \o Unescaped(SubSeq(s, 3, Len(s)))
  ELSE <<Head(s)>> \o Unescaped(Tail(s))

\* the node of escapedNode as the pre-pass is to leave it
QUOTED_OPEN == <<Chars("[\"["), Chars("[\"{")>>
QUOTED_CLOSE == <<Chars("]\"]"), Chars("}\"]")>>
quotedNode(head, id, form, text, tail) ==
  Unescaped(head) \o id \o QUOTED_OPEN[form] \o text \o QUOTED_CLOSE[form] \o Unescaped(tail)

HeaderOrBlank(line) ==
  \/ Trimmed(line) = <<>>
  \/ startsWith(Trimmed(line), Chars("graph"))
  \/ startsWith(Trimmed(line), Chars("flowchart"))

\* the escape pre-pass of preprocessChart has run
PrePassDone == entry = "preprocessChart" /\ pc = "toNewSyntax"

\* C19: on every line that is no header the escape pre-pass rewrites
\* id[\[text\]] to id["[text]"] and id\{text\} to id["{text}"] and then
\* replaces every other \[ \] \{ \} by the delimiter alone; a line without
\* such a node has its escaped delimiters replaced and nothing else, and
\* blank lines and header lines stay as they are.
C19_EscapedRewritten ==
  PrePassDone =>
    /\ \A head \in EscapedHeads, id \in EscapedIds, form \in {1, 2},
          text \in EscapedTexts, tail \in EscapedTails :
         chart = escapedNode(head, id, form, text, tail)
           => processedChart = quotedNode(head, id, form, text, tail)
    /\ Len(split(processedChart)) = Len(split(chart))
    /\ \A k \in 1..Len(split(chart)) :
         LET line == split(chart)[k]
         IN /\ HeaderOrBlank(line) => split(processedChart)[k] = line
            /\ ~HeaderOrBlank(line) /\ ~includes(line, Chars("[\\["))
                 /\ ~includes(line, Chars("\\{"))
                 => split(processedChart)[k] = Unescaped(line)

\* a node in escaped braces between a head and a tail with escaped
\* delimiters of their own
C19_Witness ==
  /\ PrePassDone
  /\ chart = escapedNode(Chars("x\\] "), Chars("B1"), 2, Chars("a]"), Chars(" --> B\\[z"))
  /\ processedChart = Chars("x] B1[\"{a]}\"] --> B[z")

\* a header line with an escaped delimiter is left alone and the line
\* behind it is cleared of its backslashes
C19_WitnessHeader ==
  /\ PrePassDone
  /\ Len(split(chart)) = 4
  /\ split(processedChart)[3] = Chars("flowchart\\[x")
  /\ split(processedChart)[4] = Chars("A[x] --> B\\{y}")

\* C20: a line of a source the flow converter handles that holds the
\* token '@{ shape:' comes out of toNewSyntax character for character as
\* it went in: no edge label on it is quoted and no text of its labels
\* becomes a descriptor.
C20_ConvertedLinesKept ==
  rev = 2 /\ pc = "validate" /\ diagramType # "sequence" =>
    /\ Len(out) = Len(lines)
    /\ \A k \in 1..Len(lines) : includes(lines[k], SHAPE_TOKEN) => out[k] = lines[k]

\* a line with a descriptor whose label holds calls and brackets, an edge
\* label without quotes and a node in the old syntax is kept, and the line
\* behind it is converted
C20_Witness ==
  /\ rev = 2 /\ pc = "validate" /\ diagramType = "flowchart"
  /\ Len(lines) = 3
  /\ lines[2] = Chars("  D@{ shape: rect, label: \"f(x).g() [0]\" } -->|go| E[y]")
  /\ out[2] = lines[2]
  /\ out[3] = Chars("  E -->|\"no\"| F@{ shape: rounded, label: \"z\" }")

\* ------------------------------------------------------------------------
\* Claims on what the converters leave behind
\* ------------------------------------------------------------------------

\* position t of line lies inside a text in double quotes: an odd number of
\* double quotes that no backslash escapes comes before it
InQuotes(line, t) ==
  Cardinality({k \in 1..(t - 1) : line[k] = "\"" /\ ~AfterEscape(line, k)}) % 2 = 1

\* an identifier ends at position t of line and an opening delimiter with
\* a closing one behind it follows, outside every quoted label
LegacyTokenAt(line, t) ==
  /\ t < Len(line)
  /\ line[t] \in WordChars
  /\ line[t + 1] \in {"[", "(", "{"}
  /\ ~InQuotes(line, t + 1)
  /\ \E u \in (t + 2)..Len(line) : line[u] \in {"]", ")", "}"} /\ ~InQuotes(line, u)

HasLegacyToken(line) == \E t \in 1..Len(line) : LegacyTokenAt(line, t)

\* C21: after the flow conversion no line that is not a header holds a
\* node in the old syntax outside the labels of the descriptors, also when
\* the line came in with descriptors and old nodes side by side.
C21_NoLegacyTokenLeft ==
  rev = 2 /\ pc = "validate" /\ diagramType # "sequence" =>
    \A k \in 1..Len(out) : ~HeaderOrBlank(lines[k]) => ~HasLegacyToken(out[k])

\* C22: in both revisions, for every shape, the label of the descriptor is
\* the text between the delimiters, trimmed, with \" for each double quote
\* and every other character as it was.
C22_LabelVerbatim ==
  pc = "validate" /\ entry = "toNewSyntax" =>
    \A k \in 1..Len(DELIMITERS), L \in QuotedLabels :
      chart = nodeText(Chars("A"), Chars(DELIMITERS[k][1]), L, Chars(DELIMITERS[k][2]))
        => /\ startsWith(convertedChart, Chars("A@{ shape: "))
           /\ endsWith(convertedChart,
                       Chars(", label: \"") \o QuotesEscaped(Trimmed(L)) \o Chars("\" }"))

\* C23: when all shape patterns have been tried every placeholder has been
\* put back: the converted text holds the sentinel ___NODE___ or _MARKER_
\* only where the source held it, also for a placeholder that came to lie
\* inside the label of another node.
C23_PlaceholdersResolved ==
  pc = "validate" =>
    /\ ~includes(processedChart, MARKER) => ~includes(convertedChart, MARKER)
    /\ ~includes(processedChart, TEMP_MARKER) => ~includes(convertedChart, TEMP_MARKER)

\* ------------------------------------------------------------------------
\* processShapeWithRegex, one iteration of its loop at a time (lines
\* 427-465)
\* ------------------------------------------------------------------------

\* length of the generated lines of the scan
MaxScan == 5

\* the two calls of processShapeWithRegex, lines 472-473 and 481-482
SCAN_CALLS ==
  {[shape |-> Chars("rounded"), openChar |-> "(", closeChar |-> ")"],
   [shape |-> Chars("rect"), openChar |-> "[", closeChar |-> "]"]}

ScanLines(call) ==
  Words({"A", " ", call.openChar, call.closeChar}, MaxScan)
    \cup {Chars("A[x] --> B[y[0]]"), Chars("A[x B[y]"), Chars("-->A(f(x)) C("),
          Chars("A(x) ==>B1(y) ..>C(z"), Chars("A[[x]] B{[} C[y]"), Chars("A(x{(}) B(y)")}

InitScan ==
  /\ regex \in SCAN_CALLS
  /\ chart \in ScanLines(regex)
  /\ processedLine = chart
  /\ nodeDefinitions = <<>>
  /\ lastIndex = 0
  /\ pc = "exec"
  /\ rev = 1
  /\ entry = "processShapeWithRegex"
  /\ processedChart = <<>>
  /\ diagramType = "unknown"
  /\ lines = <<>>
  /\ i = 1
  /\ out = <<>>
  /\ convertedChart = <<>>
  /\ returned = <<>>
  /\ second = <<>>
  /\ doc = <<>>
  /\ style = 1
  /\ result = <<>>
  /\ activationStacks = <<>>
  /\ BalanceIdle

scanFrame ==
  <<rev, entry, chart, processedChart, diagramType, lines, i, out, convertedChart, returned,
    second, regex>>

\* the iteration the loop is about to make
NextStep ==
  execStep(processedLine, nodeDefinitions,
           searchPrefix(processedLine, lastIndex + 1, regex.openChar),
           regex.shape, regex.openChar, regex.closeChar)

\* exec finds a node whose label is closed: it gives way to a placeholder
ScanReplace ==
  /\ pc = "exec"
  /\ ~NextStep.done
  /\ NextStep.line # processedLine
  /\ processedLine' = NextStep.line
  /\ nodeDefinitions' = NextStep.defs
  /\ lastIndex' = NextStep.lastIndex
  /\ UNCHANGED pc
  /\ UNCHANGED scanFrame
  /\ UNCHANGED seqVars
  /\ UNCHANGED balanceVars

\* exec finds a node whose label is closed nowhere: endPos is -1
ScanSkip ==
  /\ pc = "exec"
  /\ ~NextStep.done
  /\ NextStep.line = processedLine
  /\ processedLine' = NextStep.line
  /\ nodeDefinitions' = NextStep.defs
  /\ lastIndex' = NextStep.lastIndex
  /\ UNCHANGED pc
  /\ UNCHANGED scanFrame
  /\ UNCHANGED seqVars
  /\ UNCHANGED balanceVars

\* exec returns null: return line
ScanReturn ==
  /\ pc = "exec"
  /\ NextStep.done
  /\ lastIndex' = NextStep.lastIndex
  /\ pc' = "scanned"
  /\ UNCHANGED <<processedLine, nodeDefinitions>>
  /\ UNCHANGED scanFrame
  /\ UNCHANGED seqVars
  /\ UNCHANGED balanceVars

NextScan ==
  \/ ScanReplace
  \/ ScanSkip
  \/ ScanReturn

SpecScan == InitScan /\ [][NextScan]_vars

\* the loop and the operator the converter uses agree
ScanAgrees ==
  pc = "scanned" =>
    [line |-> processedLine, defs |-> nodeDefinitions]
      = processShapeWithRegex(chart, <<>>, 1, regex.shape, regex.openChar, regex.closeChar)

\* the part of the line exec has not looked at yet
Remainder == Len(processedLine) - lastIndex

\* C24: every iteration of the loop of processShapeWithRegex makes the
\* part of the line not yet scanned strictly shorter, so the loop ends; an
\* iteration that puts in a placeholder goes on right behind it, with the
\* rest of the line as it was, and an iteration whose opening character is
\* closed nowhere changes neither the line nor the definitions.
C24_ScanShrinks ==
  [][pc = "exec" /\ pc' = "exec" =>
       /\ Remainder' < Remainder
       /\ Remainder' >= 0
       /\ processedLine' # processedLine =>
            /\ Len(nodeDefinitions') = Len(nodeDefinitions) + 1
            /\ endsWith(SubSeq(processedLine', 1, lastIndex'),
                        createPlaceholder(<<>>, Len(nodeDefinitions)))
            /\ endsWith(processedLine, Sub(processedLine', lastIndex' + 1, Len(processedLine')))
       /\ processedLine' = processedLine => nodeDefinitions' = nodeDefinitions]_vars

\* the scan has skipped a node that is closed nowhere and replaced the
\* node behind it
C24_Witness ==
  /\ pc = "scanned"
  /\ chart = Chars("A[x B[y]")
  /\ processedLine = Chars("A[x ___NODE___0___NODE___")
  /\ Len(nodeDefinitions) = 1

\* the activations targeting P, and the deactivations sent by P, that still
\* carry their marker among the first n messages of the normalized lines
RetainedActs(P, n) ==
  {k \in 1..n : doc[k].kind = "act" /\ doc[k].to = P /\ keepsMarker(result, k)}

RetainedDeacts(P, n) ==
  {k \in 1..n : doc[k].kind = "deact" /\ doc[k].from = P /\ keepsMarker(result, k)}

\* C25: in the lines normalizeSequenceActivations returns, for every
\* participant P and every prefix of the lines the deactivation markers
\* sent by P that were kept are no more than the activation markers
\* targeting P that were kept, and over the whole document they are
\* equally many.
C25_MarkersBalanced ==
  pc \in {"messages", "done"} =>
    \A P \in PARTICIPANTS :
      /\ \A n \in 0..Len(doc) :
           Cardinality(RetainedDeacts(P, n)) <= Cardinality(RetainedActs(P, n))
      /\ Cardinality(RetainedDeacts(P, Len(doc))) = Cardinality(RetainedActs(P, Len(doc)))

\* one pair kept, and a second deactivation and a later activation of the
\* same participant without their markers
C25_Witness ==
  /\ pc = "messages"
  /\ doc = <<[kind |-> "act", from |-> "A", to |-> "B"],
             [kind |-> "deact", from |-> "B", to |-> "A"],
             [kind |-> "deact", from |-> "B", to |-> "A"],
             [kind |-> "act", from |-> "A", to |-> "B"]>>
  /\ RetainedActs("B", 4) = {1}
  /\ RetainedDeacts("B", 4) = {2}
  /\ lostMarker(result, 3) /\ lostMarker(result, 4)

\* C26: on a flow line with two legacy nodes each identifier of the output
\* carries the shape and the label that followed it in the input, also when
\* one identifier ends with the other and when both are the same.
C26_EachNodeItsOwnShape ==
  pc = "validate" /\ entry = "toNewSyntax" =>
    \A id1 \in PairIds, id2 \in PairIds, k1 \in 1..3, k2 \in 1..3 :
      chart = pairText(id1, PAIR_SHAPES[k1], id2, PAIR_SHAPES[k2]) =>
        convertedChart = Descriptor(id1, PAIR_SHAPES[k1][3], Chars("x")) \o Chars(" --> ")
                           \o Descriptor(id2, PAIR_SHAPES[k2][3], Chars("y"))

\* C27: the text between the pipes of an edge label is never rewritten into
\* a shape descriptor: after toNewSyntax the label of the edge is the
\* original text, trimmed, quoted and with its quotes escaped, also when it
\* reads name(arg), name[arg] or name{arg}.
C27_EdgeLabelKept ==
  pc = "validate" /\ entry = "toNewSyntax" =>
    \A L \in ShapedEdgeLabels :
      chart = edgeText(L) =>
        convertedChart = Chars("A -->|\"") \o QuotesEscaped(Trimmed(L)) \o Chars("\"| B")

\* C28: converting a sequence diagram is idempotent: for every source whose
\* first non-blank line starts with sequenceDiagram,
\* toNewSyntax(toNewSyntax(x)) = toNewSyntax(x); a body that already holds
\* #59; is not escaped a second time.
C28_SequenceIdempotent ==
  pc = "again" /\ rev = 2 /\ ~FlowDialect(chart) => second = convertedChart

\* the opening bracket a closing bracket goes with
OpenerOf(c) == IF c = ")" THEN "(" ELSE IF c = "]" THEN "[" ELSE "{"

\* the counted brackets of s from position k on are well nested, open being
\* the brackets still open, the most recent one last
RECURSIVE WellNestedFrom(_, _, _)
WellNestedFrom(s, k, open) ==
  IF k > Len(s) THEN open = <<>>
  ELSE IF k \notin Counted(s) THEN WellNestedFrom(s, k + 1, open)
  ELSE IF s[k] \in {"(", "[", "{"} THEN WellNestedFrom(s, k + 1, Append(open, s[k]))
  ELSE IF s[k] \in {")", "]", "}"}
       THEN /\ open # <<>>
            /\ open[Len(open)] = OpenerOf(s[k])
            /\ WellNestedFrom(s, k + 1, SubSeq(open, 1, Len(open) - 1))
  ELSE WellNestedFrom(s, k + 1, open)

\* C29: checkLabelBracketBalance returns true only for labels whose counted
\* brackets are well nested: no closing bracket comes before its opening
\* bracket, and each closing bracket is of the type of the most recent
\* bracket still open.
C29_TrueOnlyWellNested ==
  pc = "balance" /\ balanced => WellNestedFrom(label, 1, <<>>)

\* the legacy pairs that end with a backslash and a bracket, by their place
\* in DELIMITERS: id[\label\] and id[/label\]
BACKSLASH_PAIRS == {5, 6}

\* C30: the escape pre-pass does not change the shape a node converts to:
\* for a node written id[\label\] or id[/label\], preprocessChart returns
\* what toNewSyntax returns for the source.
C30_PrePassKeepsShape ==
  pc = "returned" /\ entry = "preprocessChart" =>
    \A id \in Ids, k \in BACKSLASH_PAIRS, L \in PlainLabels :
      chart = nodeText(id, Chars(DELIMITERS[k][1]), L, Chars(DELIMITERS[k][2])) =>
        returned = IF rev = 1 THEN toNewSyntaxV1(chart) ELSE toNewSyntax(chart)


====
